---- MODULE Spec2Model ----
(***************************************************************************)
(* State-machine model of the WhatDidISign extension core:                 *)
(*   - SmartCache (src/src/utils/smartCache.ts), specification SpecCache   *)
(*   - RetryHelper (src/src/utils/performanceOptimizer.ts), SpecRetry      *)
(*   - TCDetector scan coordinator (src/src/chrome/content.ts), SpecScan   *)
(*   - AIService credential rotation (src/src/utils/aiService.ts), SpecKeys*)
(*   - BackgroundService.generateSummary with AIService.summarizeDocument   *)
(*     (src/src/chrome/background.ts), SpecSummarize                       *)
(*   - AIService.parseAIResponse as a function of the parsed value,        *)
(*     SpecParse                                                            *)
(* Each specification drives one component and leaves the variables of     *)
(* the other components at their initial values.                           *)
(***************************************************************************)
EXTENDS Integers, Sequences, FiniteSets, TLC

VARIABLES
    store,      \* SmartCache: persisted object under CACHE_KEY, entries in key-insertion order
    now,        \* Date.now(), in ms
    proc,       \* SmartCache: the asynchronous get/set calls in flight (between their two awaits)
    last,       \* SmartCache: outcome of the call that completed last
    cleared,    \* history: a clear() completed and no set() has been called since
    order,      \* history: stored urls by completion order of their last insert/read (oldest first)
    nops,       \* history: number of SmartCache calls started
    nused,      \* history: number of distinct urls passed to SmartCache so far
    retry,      \* RetryHelper.withRetry: its arguments, locals and outcome
    calls,      \* history: the outcome of every invocation of the operation, in order
    waits,      \* history: the waitTime of every wait(), in order
    dom,            \* the document's a[href] elements, in document order
    detectedLinks,  \* TCDetector.detectedLinks
    indicators,     \* the anchors that carry a .whatdidisign-indicator
    isInitialized,  \* TCDetector.isInitialized
    observing,      \* the MutationObserver is connected
    idlePending,    \* requestIdleCallback callbacks, each a scanForLinks, not yet run
    timers,         \* pending setTimeout callbacks, [kind, due]
    lastExecTime,   \* throttle closure: lastExecTime
    sent,           \* 'linksDetected' messages: how many were sent, and the links of the last
    env,            \* the page: whether requestIdleCallback exists, whether init() was called
    scanLog,        \* history: when scanForLinks last ran, whether the run before it
                    \* was less than the throttle delay earlier, the document it
                    \* saw, whether the run before it saw the same document, and
                    \* whether it changed detectedLinks, the indicators or the messages
    currentKeyIndex,    \* AIService.currentKeyIndex
    requestCounts,      \* AIService.requestCounts, by credential
    provider,           \* the AIProvider the AIService was constructed with
    hasDefaultApiKeys,  \* the build injected working DEFAULT_API_KEYS
    dispatch,           \* history: the calls of getAvailableApiKey so far, and the last one
    bgCache,        \* BackgroundService.cache, by url
    cacheEnabled,   \* settings.cacheEnabled
    reqs,           \* the generateSummary calls in flight, each at one of its awaits
    done,           \* history: what the generateSummary call that completed last returned
    nreq,           \* history: number of generateSummary calls and settings updates so far
    parse,          \* parseAIResponse alone: the value JSON.parse gave, and the Summary
    analysis        \* analyzeLink alone: the anchor it was given, and what it returned

cacheVars == <<store, now, proc, last, cleared, order, nops, nused>>
retryVars == <<retry, calls, waits>>
scanVars == <<dom, detectedLinks, indicators, isInitialized, observing, idlePending,
              timers, lastExecTime, sent, env, scanLog>>
keyVars == <<currentKeyIndex, requestCounts, provider, hasDefaultApiKeys, dispatch>>
sumVars == <<bgCache, cacheEnabled, reqs, done, nreq>>
parseVars == <<parse>>
classifyVars == <<analysis>>

vars == <<store, now, proc, last, cleared, order, nops, nused, retry, calls, waits,
          dom, detectedLinks, indicators, isInitialized, observing, idlePending,
          timers, lastExecTime, sent, env, scanLog,
          currentKeyIndex, requestCounts, provider, hasDefaultApiKeys, dispatch,
          bgCache, cacheEnabled, reqs, done, nreq, parse, analysis>>

\* What the calls of one component leave alone.
cacheState == <<store, proc, last, cleared, order, nops, nused>>
CacheFrame == UNCHANGED <<retryVars, scanVars, keyVars, sumVars, parseVars, classifyVars>>
RetryFrame == UNCHANGED <<cacheVars, scanVars, keyVars, sumVars, parseVars, classifyVars>>
ScanFrame == UNCHANGED <<cacheState, retryVars, keyVars, sumVars, parseVars, classifyVars>>
KeyFrame == UNCHANGED <<cacheState, retryVars, scanVars, sumVars, parseVars, classifyVars>>
SumFrame == UNCHANGED <<cacheState, retryVars, scanVars, parseVars, classifyVars>>
ParseFrame == UNCHANGED <<cacheVars, retryVars, scanVars, keyVars, sumVars, classifyVars>>
ClassifyFrame == UNCHANGED <<cacheVars, retryVars, scanVars, keyVars, sumVars, parseVars>>

(***************************************************************************)
(*                              SmartCache                                 *)
(***************************************************************************)

\* smartCache.ts:3 sets 100; the model runs the same code with a small capacity.
MAX_CACHE_SIZE == 2
CACHE_EXPIRY_HOURS == 24
CACHE_EXPIRY_MS == CACHE_EXPIRY_HOURS * 60 * 60 * 1000

\* Bounds of the exploration.
MaxHits == 2        \* gets are explored while hits < MaxHits
MaxOps == 4         \* SmartCache calls per behaviour

CacheUrls == 1..(MAX_CACHE_SIZE + 1)
\* SmartCache never inspects a payload: every set() stores a value not stored before
\* (the number of the call), which tells any two stored payloads apart.
Payloads == 1..MaxOps
Null == 0
Procs == {1, 2}     \* get/set calls that may be between their awaits at once
\* The clock readings explored: two adjacent milliseconds, and the two around expiry of
\* an entry created at 0.
ClockValues == {0, 1, CACHE_EXPIRY_MS, CACHE_EXPIRY_MS + 1}

NoEntry == [url |-> 0, data |-> Null, timestamp |-> 0, lastAccessed |-> 0, hits |-> 0]

\* cache[url] for a url that is a key of cache
RECURSIVE IndexOf(_, _, _)
IndexOf(cache, url, i) ==
    IF i > Len(cache) THEN 0
    ELSE IF cache[i].url = url THEN i
    ELSE IndexOf(cache, url, i + 1)

HasKey(cache, url) == IndexOf(cache, url, 1) # 0

Lookup(cache, url) ==
    IF HasKey(cache, url) THEN cache[IndexOf(cache, url, 1)] ELSE NoEntry

\* delete cache[url]
DeleteKey(cache, url) ==
    LET i == IndexOf(cache, url, 1)
    IN  IF i = 0 THEN cache
        ELSE SubSeq(cache, 1, i - 1) \o SubSeq(cache, i + 1, Len(cache))

\* cache[url] = entry : an existing key keeps its place, a new key goes last
AssignKey(cache, url, entry) ==
    LET i == IndexOf(cache, url, 1)
    IN  IF i = 0 THEN Append(cache, entry)
        ELSE [cache EXCEPT ![i] = entry]

\* mutant: the reduce keeps the most recently accessed key
RECURSIVE ReduceOldest_Newest(_, _, _)
ReduceOldest_Newest(cache, oldest, i) ==
    IF i > Len(cache) THEN oldest
    ELSE ReduceOldest_Newest(cache,
                             IF cache[i].lastAccessed > cache[oldest].lastAccessed THEN i ELSE oldest,
                             i + 1)

\* cacheKeys.reduce((oldest, key) => cache[key].lastAccessed < cache[oldest].lastAccessed ? key : oldest)
RECURSIVE ReduceOldest(_, _, _)
ReduceOldest(cache, oldest, i) ==
    IF i > Len(cache) THEN oldest
    ELSE ReduceOldest(cache,
                      IF cache[i].lastAccessed < cache[oldest].lastAccessed THEN i ELSE oldest,
                      i + 1)

LruIndex(cache) == ReduceOldest(cache, 1, 2)

\* mutant: the capacity test is off by one
IsFull_OffByOne(cache) == Len(cache) > MAX_CACHE_SIZE

IsFull(cache) == Len(cache) >= MAX_CACHE_SIZE

\* lines 40-46: the entry deleted before the insert, NoEntry when the cache is not full
EvictedBySet(cache) ==
    IF IsFull(cache) THEN cache[LruIndex(cache)] ELSE NoEntry

AfterEviction(cache) ==
    IF IsFull(cache) THEN DeleteKey(cache, cache[LruIndex(cache)].url) ELSE cache

\* mutant: a new entry starts with one hit
NewEntry_HitsOne(url, data, t) ==
    [url |-> url, data |-> data, timestamp |-> t, lastAccessed |-> t, hits |-> 1]

NewEntry(url, data, t) ==
    [url |-> url, data |-> data, timestamp |-> t, lastAccessed |-> t, hits |-> 0]

\* the object set() hands to chrome.storage.local.set
SetResult(cache, url, data, t) ==
    AssignKey(AfterEviction(cache), url, NewEntry(url, data, t))

\* mutant: an entry expires when its age reaches the TTL
IsExpired_AtTtl(entry, t) == t - entry.timestamp >= CACHE_EXPIRY_MS

IsExpired(entry, t) == t - entry.timestamp > CACHE_EXPIRY_MS

\* mutant: a hit counts but does not refresh lastAccessed
Touch_NoRefresh(entry, t) == [entry EXCEPT !.hits = entry.hits + 1]

Touch(entry, t) == [entry EXCEPT !.hits = entry.hits + 1, !.lastAccessed = t]

\* the object get() hands to chrome.storage.local.set (when it writes)
GetResult(cache, url, t) ==
    LET cached == Lookup(cache, url)
    IN  IF IsExpired(cached, t) THEN DeleteKey(cache, url)
        ELSE AssignKey(cache, url, Touch(cached, t))

RECURSIVE SumHits(_, _)
SumHits(cache, i) ==
    IF i > Len(cache) THEN 0 ELSE cache[i].hits + SumHits(cache, i + 1)

StatsOf(cache) == <<Len(cache), SumHits(cache, 1)>>

\* history: url becomes the most recently accessed of the urls in cache
RECURSIVE Without(_, _)
Without(s, x) ==
    IF s = <<>> THEN <<>>
    ELSE IF Head(s) = x THEN Without(Tail(s), x)
    ELSE <<Head(s)>> \o Without(Tail(s), x)

RECURSIVE KeepKeys(_, _)
KeepKeys(s, cache) ==
    IF s = <<>> THEN <<>>
    ELSE IF HasKey(cache, Head(s)) THEN <<Head(s)>> \o KeepKeys(Tail(s), cache)
    ELSE KeepKeys(Tail(s), cache)

Accessed(ord, url, cache) == KeepKeys(Without(ord, url), cache) \o <<url>>

IdleProc == [pc |-> "idle", url |-> 0, data |-> Null, cache |-> <<>>]

NoCall == [op |-> "none", url |-> 0, data |-> Null, ret |-> Null, stats |-> <<0, 0>>,
           raised |-> FALSE, failed |-> FALSE, hit |-> FALSE, expired |-> FALSE,
           overlap |-> FALSE, evicted |-> NoEntry]

CacheStart ==
    /\ store = <<>>
    /\ now = 0
    /\ proc = [p \in Procs |-> IdleProc]
    /\ last = NoCall
    /\ cleared = FALSE
    /\ order = <<>>
    /\ nops = 0
    /\ nused = 0


\* What each catch block hands back to the caller (lines 28-31, 56-58, 64-66, 79-82).
\* mutant: get() lets the storage error through
GetCatch_Rethrow == [ret |-> Null, raised |-> TRUE]

GetCatch == [ret |-> Null, raised |-> FALSE]
SetCatch == [raised |-> FALSE]
ClearCatch == [raised |-> FALSE]
StatsCatch == [stats |-> <<0, 0>>, raised |-> FALSE]

\* Urls are interchangeable: the n-th distinct url a behaviour uses is named n.
FreshOrUsed(url) == url <= nused + 1
UsedAfter(url) == IF url > nused THEN url ELSE nused

\* A new call takes the lowest free slot (the slots are interchangeable).
FreeSlot(p) == proc[p].pc = "idle" /\ \A q \in Procs : q < p => proc[q].pc # "idle"

Call(op, url, data) == [NoCall EXCEPT !.op = op, !.url = url, !.data = data]

\* get(url), up to the first await: chrome.storage.local.get resolves or rejects
GetStart(p, url) ==
    /\ FreeSlot(p)
    /\ nops < MaxOps
    /\ Lookup(store, url).hits < MaxHits
    /\ FreshOrUsed(url)
    /\ nops' = nops + 1
    /\ nused' = UsedAfter(url)
    /\ \E ok \in BOOLEAN :
         IF ok
         THEN /\ proc' = [proc EXCEPT ![p] = [pc |-> "get", url |-> url, data |-> Null,
                                               cache |-> store]]
              /\ UNCHANGED last
         ELSE /\ last' = [Call("get", url, Null) EXCEPT !.ret = GetCatch.ret,
                                                        !.raised = GetCatch.raised,
                                                        !.failed = TRUE]
              /\ UNCHANGED proc
    /\ UNCHANGED <<store, now, cleared, order>>
    /\ CacheFrame

\* get(url), from the resolved read to its return (lines 9-27)
GetFinish(p) ==
    /\ proc[p].pc = "get"
    /\ LET cache == proc[p].cache
           url == proc[p].url
           cached == Lookup(cache, url)
           call == [Call("get", url, Null) EXCEPT !.overlap = (cache # store)]
       IN  IF ~HasKey(cache, url)
           THEN /\ last' = call
                /\ UNCHANGED <<store, order>>
           ELSE \E ok \in BOOLEAN :
                  IF ok
                  THEN /\ store' = GetResult(cache, url, now)
                       /\ last' = IF IsExpired(cached, now)
                                  THEN [call EXCEPT !.expired = TRUE, !.evicted = cached]
                                  ELSE [call EXCEPT !.hit = TRUE, !.ret = cached.data]
                       /\ order' = IF IsExpired(cached, now)
                                   THEN KeepKeys(order, store')
                                   ELSE Accessed(order, url, store')
                  ELSE /\ last' = [call EXCEPT !.ret = GetCatch.ret,
                                               !.raised = GetCatch.raised,
                                               !.failed = TRUE]
                       /\ UNCHANGED <<store, order>>
    /\ proc' = [proc EXCEPT ![p] = IdleProc]
    /\ UNCHANGED <<now, cleared, nops, nused>>
    /\ CacheFrame

\* set(url, data), up to the first await
SetStart(p, url, data) ==
    /\ FreeSlot(p)
    /\ nops < MaxOps
    /\ FreshOrUsed(url)
    /\ data = nops + 1
    /\ nops' = nops + 1
    /\ nused' = UsedAfter(url)
    /\ cleared' = FALSE
    /\ \E ok \in BOOLEAN :
         IF ok
         THEN /\ proc' = [proc EXCEPT ![p] = [pc |-> "set", url |-> url, data |-> data,
                                               cache |-> store]]
              /\ UNCHANGED last
         ELSE /\ last' = [Call("set", url, data) EXCEPT !.raised = SetCatch.raised,
                                                        !.failed = TRUE]
              /\ UNCHANGED proc
    /\ UNCHANGED <<store, now, order>>
    /\ CacheFrame

\* set(url, data), from the resolved read to its return (lines 37-55)
SetFinish(p) ==
    /\ proc[p].pc = "set"
    /\ LET cache == proc[p].cache
           url == proc[p].url
           call == [Call("set", url, proc[p].data) EXCEPT !.overlap = (cache # store)]
       IN  \E ok \in BOOLEAN :
             IF ok
             THEN /\ store' = SetResult(cache, url, proc[p].data, now)
                  /\ last' = [call EXCEPT !.evicted = EvictedBySet(cache)]
                  /\ order' = Accessed(order, url, store')
             ELSE /\ last' = [call EXCEPT !.raised = SetCatch.raised, !.failed = TRUE]
                  /\ UNCHANGED <<store, order>>
    /\ proc' = [proc EXCEPT ![p] = IdleProc]
    /\ UNCHANGED <<now, cleared, nops, nused>>
    /\ CacheFrame

\* clear() (lines 61-67)
Clear ==
    /\ nops < MaxOps
    /\ nops' = nops + 1
    /\ \E ok \in BOOLEAN :
         IF ok
         THEN /\ store' = <<>>
              /\ order' = <<>>
              /\ cleared' = TRUE
              /\ last' = Call("clear", 0, Null)
         ELSE /\ last' = [Call("clear", 0, Null) EXCEPT !.raised = ClearCatch.raised,
                                                        !.failed = TRUE]
              /\ UNCHANGED <<store, order, cleared>>
    /\ UNCHANGED <<now, proc, nused>>
    /\ CacheFrame

\* getStats() (lines 69-83)
GetStats ==
    /\ nops < MaxOps
    /\ nops' = nops + 1
    /\ \E ok \in BOOLEAN :
         last' = IF ok
                 THEN [Call("stats", 0, Null) EXCEPT !.stats = StatsOf(store)]
                 ELSE [Call("stats", 0, Null) EXCEPT !.stats = StatsCatch.stats,
                                                     !.raised = StatsCatch.raised,
                                                     !.failed = TRUE]
    /\ UNCHANGED <<store, now, proc, cleared, order, nused>>
    /\ CacheFrame

\* the clock advances to a later reading
Tick(t) ==
    /\ t > now
    /\ now' = t
    /\ UNCHANGED <<store, proc, last, cleared, order, nops, nused>>
    /\ CacheFrame

CacheNext ==
    \/ \E p \in Procs, url \in CacheUrls : GetStart(p, url)
    \/ \E p \in Procs : GetFinish(p)
    \/ \E p \in Procs, url \in CacheUrls, data \in Payloads : SetStart(p, url, data)
    \/ \E p \in Procs : SetFinish(p)
    \/ Clear
    \/ GetStats
    \/ \E t \in ClockValues : Tick(t)

(***************************************************************************)
(*                        RetryHelper.withRetry                            *)
(***************************************************************************)

\* Largest maxRetries explored; 3 is the default argument.
MaxRetriesBound == 3

NoStatus == -1      \* error.status is undefined
Messages == {"Unauthorized", "403 Forbidden", "Invalid API key", "Quota Exceeded",
             "Network error"}
Statuses == {NoStatus, 399, 400, 499, 500}

\* The errors the operation may fail with.
Errors ==
    {[message |-> m, status |-> NoStatus] : m \in Messages}
        \cup {[message |-> "Network error", status |-> st] : st \in Statuses}

NoError == [message |-> "(none)", status |-> NoStatus]
Success == [message |-> "(success)", status |-> NoStatus]

\* String.prototype.toLowerCase on the messages above
ToLowerCase(m) ==
    CASE m = "Unauthorized" -> "unauthorized"
      [] m = "403 Forbidden" -> "403 forbidden"
      [] m = "Invalid API key" -> "invalid api key"
      [] m = "Quota Exceeded" -> "quota exceeded"
      [] m = "Network error" -> "network error"
      [] OTHER -> m

\* String.prototype.includes (case-sensitive) on the messages and needles above
Includes(hay, needle) ==
    \/ hay = needle
    \/ <<hay, needle>> \in {<<"403 forbidden", "forbidden">>, <<"403 Forbidden", "Forbidden">>}

\* mutant: the status test is dropped
ShouldNotRetry_MessageOnly(error) ==
    LET errorMessage == ToLowerCase(error.message)
    IN  \/ Includes(errorMessage, "unauthorized")
        \/ Includes(errorMessage, "forbidden")
        \/ Includes(errorMessage, "invalid api key")
        \/ Includes(errorMessage, "quota exceeded")

\* shouldNotRetry (lines 121-130)
ShouldNotRetry(error) ==
    LET errorMessage == ToLowerCase(error.message)
    IN  \/ Includes(errorMessage, "unauthorized")
        \/ Includes(errorMessage, "forbidden")
        \/ Includes(errorMessage, "invalid api key")
        \/ Includes(errorMessage, "quota exceeded")
        \/ (error.status >= 400 /\ error.status < 500)

RECURSIVE Pow2(_)
Pow2(n) == IF n = 0 THEN 1 ELSE 2 * Pow2(n - 1)

\* mutant: the delay grows by one delay per attempt
WaitTime_Linear(backoff, delay, attempt) ==
    IF backoff THEN delay * (attempt + 1) ELSE delay

\* line 111
WaitTime(backoff, delay, attempt) ==
    IF backoff THEN delay * Pow2(attempt) ELSE delay

Delays == {500, 1000}

RetryStart ==
    /\ \E m \in 0..MaxRetriesBound, d \in Delays, b \in BOOLEAN :
         retry = [pc |-> "call", maxRetries |-> m, delay |-> d, backoff |-> b,
                  attempt |-> 0, lastError |-> NoError, thrown |-> NoError,
                  returned |-> FALSE]
    /\ calls = <<>>
    /\ waits = <<>>

\* mutant: the loop gives up one attempt early
LastAttempt_OffByOne(attempt, maxRetries) == attempt + 1 >= maxRetries

\* mutant: every failure is treated as the last attempt
LastAttempt_Always(attempt, maxRetries) == attempt >= 0

\* line 106
LastAttempt(attempt, maxRetries) == attempt = maxRetries

\* lines 95-96: the operation is invoked and resolves
InvokeOk ==
    /\ retry.pc = "call"
    /\ retry.attempt <= retry.maxRetries
    /\ calls' = Append(calls, Success)
    /\ retry' = [retry EXCEPT !.pc = "returned", !.returned = TRUE]
    /\ UNCHANGED waits
    /\ RetryFrame

\* lines 95-108: the operation is invoked and rejects with error; the catch block
\* rethrows it or goes on to the wait
InvokeFail(error) ==
    /\ retry.pc = "call"
    /\ retry.attempt <= retry.maxRetries
    /\ calls' = Append(calls, error)
    /\ retry' = IF ShouldNotRetry(error)
                THEN [retry EXCEPT !.pc = "thrown", !.lastError = error, !.thrown = error]
                ELSE IF LastAttempt(retry.attempt, retry.maxRetries)
                THEN [retry EXCEPT !.pc = "thrown", !.lastError = error, !.thrown = error]
                ELSE [retry EXCEPT !.pc = "wait", !.lastError = error]
    /\ UNCHANGED waits
    /\ RetryFrame

\* lines 111-112 and the loop increment: the wait elapses
Wait ==
    /\ retry.pc = "wait"
    /\ waits' = Append(waits, WaitTime(retry.backoff, retry.delay, retry.attempt))
    /\ retry' = [retry EXCEPT !.pc = "call", !.attempt = retry.attempt + 1]
    /\ UNCHANGED calls
    /\ RetryFrame

RetryNext ==
    \/ InvokeOk
    \/ \E error \in Errors : InvokeFail(error)
    \/ Wait

(***************************************************************************)
(*                  TCDetector: classifier and scans                       *)
(***************************************************************************)

\* content.ts:6-22
KEYWORDS ==
    [terms |-> <<"terms of service", "terms of use", "terms & conditions",
                 "terms and conditions", "user agreement", "service agreement",
                 "legal terms", "tos", "eula", "end user license agreement",
                 "licensing agreement", "terms", "conditions", "user terms",
                 "service terms", "website terms", "platform terms">>,
     privacy |-> <<"privacy policy", "privacy notice", "privacy statement", "data policy",
                   "data protection", "privacy practices", "information collection",
                   "privacy", "data usage", "personal information", "data handling",
                   "privacy rights">>,
     cookies |-> <<"cookie policy", "cookie notice", "cookie preferences", "cookie settings",
                   "cookies and tracking", "cookie information", "cookies", "tracking">>]

\* content.ts:202-214
UrlPatterns ==
    [terms |-> {"/terms", "/tos", "/user-agreement", "/eula", "/service-agreement",
                "terms-of-service", "terms-of-use", "terms-and-conditions"},
     privacy |-> {"/privacy", "/privacy-policy", "/data-policy", "/privacy-notice",
                  "privacy-statement", "privacy-practices"},
     cookies |-> {"/cookies", "/cookie-policy", "/cookie-notice", "/cookie-preferences"}]

\* Object.entries order of typeScores and of patterns
Types == <<"terms", "privacy", "cookies">>

\* The anchors a page may hold. href and text are link.href and link.textContent;
\* includes: the keywords k with combinedText.includes(k); exact: those equal to one of
\* combinedText.split(' '); patterns: the path patterns p with href.includes(p);
\* footer: inside the first footer-like container; bottom: absoluteTop > bottomThreshold.
Anchor ==
    <<[href |-> "https://x.test/privacy", text |-> "Privacy Policy",
       includes |-> {"privacy policy", "privacy"}, exact |-> {"privacy"},
       patterns |-> {"/privacy"}, footer |-> FALSE, bottom |-> FALSE],
      [href |-> "https://x.test/privacy", text |-> "Privacy",
       includes |-> {"privacy"}, exact |-> {"privacy"},
       patterns |-> {"/privacy"}, footer |-> TRUE, bottom |-> TRUE],
      [href |-> "https://x.test/legal/data", text |-> "Privacy Policy",
       includes |-> {"privacy policy", "privacy"}, exact |-> {"privacy"},
       patterns |-> {}, footer |-> TRUE, bottom |-> FALSE],
      [href |-> "https://x.test/about", text |-> "About us",
       includes |-> {}, exact |-> {},
       patterns |-> {}, footer |-> FALSE, bottom |-> TRUE]>>

Elements == 1..Len(Anchor)

\* calculateScore (lines 280-296) as the fraction <<2 * score, 2 * maxScore>>
RECURSIVE ScoreSum(_, _, _)
ScoreSum(a, keywords, i) ==
    IF i > Len(keywords) THEN 0
    ELSE (IF keywords[i] \in a.includes
          THEN 2 * Len(keywords[i])
               + (IF keywords[i] \in a.exact THEN Len(keywords[i]) ELSE 0)
          ELSE 0) + ScoreSum(a, keywords, i + 1)

RECURSIVE MaxScore(_, _)
MaxScore(keywords, i) ==
    IF i > Len(keywords) THEN 0 ELSE Len(keywords[i]) + MaxScore(keywords, i + 1)

CalculateScore(a, keywords) ==
    IF MaxScore(keywords, 1) > 0
    THEN <<ScoreSum(a, keywords, 1), 2 * MaxScore(keywords, 1)>>
    ELSE <<0, 1>>

\* getUrlBonus (lines 200-225): the first type, in Object.entries order, one of whose
\* patterns occurs in href; "" when none does
RECURSIVE UrlBonusType(_, _)
UrlBonusType(a, i) ==
    IF i > Len(Types) THEN ""
    ELSE IF UrlPatterns[Types[i]] \cap a.patterns # {} THEN Types[i]
    ELSE UrlBonusType(a, i + 1)

\* typeScores after line 246: the bonus 0.5 is den / 2 over den
TypeScore(a, type) ==
    LET base == CalculateScore(a, KEYWORDS[type])
    IN  IF UrlBonusType(a, 1) = type
        THEN <<base[1] + base[2] \div 2, base[2]>>
        ELSE base

Greater(x, y) == x[1] * y[2] > y[1] * x[2]

\* Object.entries(typeScores).reduce((a, b) => typeScores[a] > typeScores[b] ? a : b)
RECURSIVE ReduceBest(_, _, _)
ReduceBest(a, best, i) ==
    IF i > Len(Types) THEN best
    ELSE ReduceBest(a,
                    IF Greater(TypeScore(a, best), TypeScore(a, Types[i])) THEN best
                    ELSE Types[i],
                    i + 1)

BestType(a) == ReduceBest(a, Types[1], 2)

\* the acceptance threshold of line 267, 0.1, as a fraction
THRESHOLD_NUM == 1
THRESHOLD_DEN == 10

NoLink == [url |-> "", text |-> "", type |-> "", element |-> 0, confidence |-> <<0, 1>>]

\* analyzeLink (lines 227-278) of the element el with the attributes a; NoLink stands
\* for null
Analyze(a, el) ==
    LET confidence == TypeScore(a, BestType(a))
    IN  IF Greater(confidence, <<THRESHOLD_NUM, THRESHOLD_DEN>>)
        THEN [url |-> a.href, text |-> a.text, type |-> BestType(a), element |-> el,
              confidence |-> confidence]
        ELSE NoLink

AnalyzeLink(el) == Analyze(Anchor[el], el)

\* analyzeLink of every anchor of the page
Classified == [el \in Elements |-> AnalyzeLink(el)]

\* The anchors analyzeLink is applied to by itself: every text below with every href
\* below. includes: the keywords that occur in the lowercased text, or href; exact: those
\* equal to one of the words of the text; patterns: the path patterns that occur in
\* the href.
LinkTexts ==
    {[text |-> "Privacy Policy", includes |-> {"privacy policy", "privacy"},
      exact |-> {"privacy"}],
     [text |-> "Privacy", includes |-> {"privacy"}, exact |-> {"privacy"}],
     [text |-> "Terms of Service", includes |-> {"terms of service", "terms"},
      exact |-> {"terms"}],
     [text |-> "Terms & Conditions",
      includes |-> {"terms & conditions", "terms", "conditions"},
      exact |-> {"terms", "conditions"}],
     [text |-> "Cookies", includes |-> {"cookies"}, exact |-> {"cookies"}],
     [text |-> "Cookie Policy", includes |-> {"cookie policy"}, exact |-> {}],
     [text |-> "Legal", includes |-> {}, exact |-> {}],
     [text |-> "About us", includes |-> {}, exact |-> {}]}

LinkHrefs ==
    {[href |-> "https://x.test/about", includes |-> {}, patterns |-> {}],
     [href |-> "https://x.test/legal/data", includes |-> {}, patterns |-> {}],
     [href |-> "https://x.test/privacy", includes |-> {"privacy"},
      patterns |-> {"/privacy"}],
     [href |-> "https://x.test/terms", includes |-> {"terms"}, patterns |-> {"/terms"}],
     [href |-> "https://x.test/tos", includes |-> {"tos"}, patterns |-> {"/tos"}],
     [href |-> "https://x.test/cookies", includes |-> {"cookies"},
      patterns |-> {"/cookies"}],
     [href |-> "https://x.test/legal/terms-of-service", includes |-> {"terms"},
      patterns |-> {"terms-of-service"}],
     [href |-> "https://x.test/privacy/cookies", includes |-> {"privacy", "cookies"},
      patterns |-> {"/privacy", "/cookies"}],
     [href |-> "https://x.test/terms/privacy", includes |-> {"terms", "privacy"},
      patterns |-> {"/terms", "/privacy"}]}

LinkInputs ==
    {[href |-> h.href, text |-> t.text, includes |-> t.includes \cup h.includes,
      exact |-> t.exact, patterns |-> h.patterns, footer |-> FALSE, bottom |-> FALSE] :
        t \in LinkTexts, h \in LinkHrefs}

NoAnalysis ==
    [in |-> [href |-> "", text |-> "", includes |-> {}, exact |-> {}, patterns |-> {},
             footer |-> FALSE, bottom |-> FALSE],
     ran |-> FALSE, out |-> NoLink]

ClassifyStart == analysis \in {[NoAnalysis EXCEPT !.in = a] : a \in LinkInputs}

\* the duplicate test that never finds a duplicate
IsDuplicate_Never(links, link) == FALSE

\* isDuplicate (lines 298-303)
IsDuplicate(links, link) ==
    \E i \in 1..Len(links) :
        \/ links[i].url = link.url
        \/ (links[i].text = link.text /\ links[i].type = link.type)

\* first pass (lines 121-128): the links pushed to newLinks, in document order
RECURSIVE FirstPass(_, _, _)
FirstPass(doc, links, i) ==
    IF i > Len(doc) THEN <<>>
    ELSE LET detected == Classified[doc[i]]
         IN  (IF detected # NoLink /\ ~IsDuplicate(links, detected)
              THEN <<detected>> ELSE <<>>) \o FirstPass(doc, links, i + 1)

SomeUrl(links, url) == \E i \in 1..Len(links) : links[i].url = url

\* scanFooterLinks: one forEach over candidates (lines 168-176 and 181-195), pushing to
\* footerLinks
RECURSIVE FooterLoop(_, _, _, _)
FooterLoop(cands, links, footerLinks, i) ==
    IF i > Len(cands) THEN footerLinks
    ELSE LET detected == Classified[cands[i]]
         IN  FooterLoop(cands, links,
                        IF /\ detected # NoLink
                           /\ ~IsDuplicate(links, detected)
                           /\ ~SomeUrl(footerLinks, detected.url)
                        THEN Append(footerLinks, detected) ELSE footerLinks,
                        i + 1)

InFooter(el) == Anchor[el].footer
InBottom(el) == Anchor[el].bottom

\* scanFooterLinks (lines 145-198): the footer container's links, then the bottom links
ScanFooterLinks(doc, links) ==
    FooterLoop(SelectSeq(doc, InBottom), links,
               FooterLoop(SelectSeq(doc, InFooter), links, <<>>, 1), 1)

\* mutant: the second pass runs after every first pass
SecondPassRuns_Always(newLinks) == TRUE

\* line 131: if (newLinks.length === 0)
SecondPassRuns(newLinks) == Len(newLinks) = 0

\* newLinks of one scanForLinks (lines 116-134)
NewLinks(doc, links) ==
    LET first == FirstPass(doc, links, 1)
    IN  IF SecondPassRuns(first)
        THEN first \o ScanFooterLinks(doc, links)
        ELSE first

ElementsOf(links) == {links[i].element : i \in 1..Len(links)}

\* window.location.href of the page
PageUrl == "https://x.test/"

\* mutant: the message carries the candidate set as it was before the scan
NotifyBackground_Stale(links) ==
    [count |-> sent.count + 1, links |-> detectedLinks, url |-> PageUrl]

\* notifyBackground (lines 704-710): the last 'linksDetected' message and their number
NotifyBackground(links) == [count |-> sent.count + 1, links |-> links, url |-> PageUrl]

NothingSent == [count |-> 0, links |-> <<>>, url |-> ""]

THROTTLE_DELAY == 1000      \* content.ts:49
DELAYED_SCAN_MS == 2000     \* content.ts:106
FALLBACK_SCAN_MS == 100     \* content.ts:95
RESCAN_MS == 100            \* content.ts:742

\* what is known of the last scanForLinks: first, the number of links the first pass
\* accepted; footer, whether scanFooterLinks was called; footerLinks, what it returned
NoScan == [ran |-> FALSE, time |-> 0, close |-> FALSE, doc |-> <<>>, again |-> FALSE,
           added |-> FALSE, first |-> 0, footer |-> FALSE, footerLinks |-> <<>>]

\* scanForLinks (lines 114-143): detectedLinks, indicators and messages afterwards
ScanForLinks(doc) ==
    /\ detectedLinks' = detectedLinks \o NewLinks(doc, detectedLinks)
    /\ LET newLinks == SubSeq(detectedLinks', Len(detectedLinks) + 1, Len(detectedLinks'))
           first == Len(FirstPass(doc, detectedLinks, 1))
       IN  /\ indicators' = indicators \cup ElementsOf(newLinks)
           /\ sent' = IF Len(newLinks) > 0
                      THEN NotifyBackground(detectedLinks')
                      ELSE sent
           /\ scanLog' = [ran |-> TRUE, time |-> now,
                          close |-> scanLog.ran /\ now - scanLog.time < THROTTLE_DELAY,
                          doc |-> doc,
                          again |-> scanLog.ran /\ scanLog.doc = doc,
                          added |-> \/ detectedLinks' # detectedLinks
                                    \/ indicators' # indicators
                                    \/ sent' # sent,
                          first |-> first,
                          footer |-> SecondPassRuns(SubSeq(newLinks, 1, first)),
                          footerLinks |-> SubSeq(newLinks, first + 1, Len(newLinks))]

\* Clock of the page: Date.now() when the content script is constructed, the step of
\* the clock and the number of steps explored.
PageLoadTime == 5 * THROTTLE_DELAY
TickMs == THROTTLE_DELAY
MaxScanTicks == 3
MaxRescans == 1

Timer(kind, due) == [kind |-> kind, due |-> due]

ScanStart ==
    /\ dom \in {SelectSeq([i \in Elements |-> i], LAMBDA el : el \in S) : S \in SUBSET Elements}
    /\ detectedLinks = <<>>
    /\ indicators = {}
    /\ isInitialized = FALSE
    /\ observing = FALSE
    /\ idlePending = 0
    /\ timers = {}
    /\ lastExecTime = 0
    /\ sent = NothingSent
    /\ env \in {[idle |-> b, ready |-> FALSE, rescans |-> 0] : b \in BOOLEAN}
    /\ scanLog = NoScan

\* init() (lines 80-112); rest: the timers still pending when it is called
InitDetector(rest) ==
    IF isInitialized
    THEN /\ timers' = rest
         /\ UNCHANGED <<isInitialized, observing, idlePending, sent>>
    ELSE /\ isInitialized' = TRUE
         /\ observing' = TRUE
         /\ idlePending' = IF env.idle THEN idlePending + 1 ELSE idlePending
         /\ timers' = rest \cup {Timer("delayed", now + DELAYED_SCAN_MS)}
                           \cup (IF env.idle THEN {}
                                 ELSE {Timer("initScan", now + FALLBACK_SCAN_MS)})
         /\ sent' = NotifyBackground(detectedLinks)

\* lines 731-735: the document is ready and detector.init() is called
PageReady ==
    /\ ~env.ready
    /\ env' = [env EXCEPT !.ready = TRUE]
    /\ InitDetector(timers)
    /\ UNCHANGED <<dom, detectedLinks, indicators, lastExecTime, scanLog, now>>
    /\ ScanFrame

\* a requestIdleCallback callback runs (lines 90-92, 102)
IdleScan ==
    /\ idlePending > 0
    /\ idlePending' = idlePending - 1
    /\ ScanForLinks(dom)
    /\ UNCHANGED <<dom, isInitialized, observing, timers, lastExecTime, env, now>>
    /\ ScanFrame

\* the setTimeout of line 95 fires
InitScanTimer(t) ==
    /\ t \in timers /\ t.kind = "initScan" /\ t.due <= now
    /\ timers' = timers \ {t}
    /\ ScanForLinks(dom)
    /\ UNCHANGED <<dom, isInitialized, observing, idlePending, lastExecTime, env, now>>
    /\ ScanFrame

\* the setTimeout of lines 99-106 fires
DelayedTimer(t) ==
    /\ t \in timers /\ t.kind = "delayed" /\ t.due <= now
    /\ timers' = timers \ {t}
    /\ IF env.idle
       THEN /\ idlePending' = idlePending + 1
            /\ UNCHANGED <<detectedLinks, indicators, sent, scanLog>>
       ELSE /\ ScanForLinks(dom)
            /\ UNCHANGED idlePending
    /\ UNCHANGED <<dom, isInitialized, observing, lastExecTime, env, now>>
    /\ ScanFrame

\* the deferred call of the throttle fires (performanceOptimizer.ts:21-24)
ThrottleTimer(t) ==
    /\ t \in timers /\ t.kind = "throttle" /\ t.due <= now
    /\ timers' = timers \ {t}
    /\ ScanForLinks(dom)
    /\ lastExecTime' = now
    /\ UNCHANGED <<dom, isInitialized, observing, idlePending, env, now>>
    /\ ScanFrame

\* mutant: the deferred call waits a whole delay from the request
Deferred_FullDelay(ts, lastExec, t) ==
    {x \in ts : x.kind # "throttle"} \cup {Timer("throttle", t + THROTTLE_DELAY)}

\* performanceOptimizer.ts:20-24: clearTimeout(timeoutId), then setTimeout for the rest
\* of the window; ts: the pending timers, lastExec: lastExecTime, t: Date.now()
Deferred(ts, lastExec, t) ==
    {x \in ts : x.kind # "throttle"}
        \cup {Timer("throttle", t + (THROTTLE_DELAY - (t - lastExec)))}

\* the page appends anchor el to the document; when the observer is connected,
\* handleMutations (lines 682-702) calls throttledScanForLinks
\* (performanceOptimizer.ts:13-26)
Mutate(el) ==
    /\ env.ready
    /\ \A i \in 1..Len(dom) : dom[i] # el
    /\ dom' = Append(dom, el)
    /\ IF ~observing
       THEN UNCHANGED <<detectedLinks, indicators, sent, timers, lastExecTime, scanLog>>
       ELSE IF now - lastExecTime > THROTTLE_DELAY
       THEN /\ ScanForLinks(dom')
            /\ lastExecTime' = now
            /\ UNCHANGED timers
       ELSE /\ timers' = Deferred(timers, lastExecTime, now)
            /\ UNCHANGED <<detectedLinks, indicators, sent, lastExecTime, scanLog>>
    /\ UNCHANGED <<isInitialized, observing, idlePending, env, now>>
    /\ ScanFrame

\* the 'rescan' message (lines 742-745): destroy() (lines 716-722), then init() in 100 ms
Rescan ==
    /\ env.ready
    /\ env.rescans < MaxRescans
    /\ env' = [env EXCEPT !.rescans = env.rescans + 1]
    /\ observing' = FALSE
    /\ isInitialized' = FALSE
    /\ indicators' = {}
    /\ timers' = timers \cup {Timer("rescan", now + RESCAN_MS)}
    /\ UNCHANGED <<dom, detectedLinks, idlePending, lastExecTime, sent, scanLog, now>>
    /\ ScanFrame

\* the setTimeout of line 744 fires
RescanTimer(t) ==
    /\ t \in timers /\ t.kind = "rescan" /\ t.due <= now
    /\ InitDetector(timers \ {t})
    /\ UNCHANGED <<dom, detectedLinks, indicators, lastExecTime, env, scanLog, now>>
    /\ ScanFrame

ScanTick ==
    /\ now + TickMs <= PageLoadTime + MaxScanTicks * TickMs
    /\ now' = now + TickMs
    /\ UNCHANGED scanVars
    /\ ScanFrame

\* beyond the clock readings explored, time still passes while a deferred scan is
\* pending
TimerTick ==
    /\ now + TickMs > PageLoadTime + MaxScanTicks * TickMs
    /\ \E t \in timers : t.kind = "throttle" /\ t.due > now
    /\ now' = now + TickMs
    /\ UNCHANGED scanVars
    /\ ScanFrame

(***************************************************************************)
(*                    AIService: credential rotation                       *)
(***************************************************************************)

\* aiService.ts:22-27, the keys the build injects
DEFAULT_API_KEYS == <<"pool-key-1", "pool-key-2", "pool-key-3", "pool-key-4">>
REQUESTS_PER_MINUTE == 15
MINUTE_IN_MS == 60 * 1000

PoolKeys == {DEFAULT_API_KEYS[i] : i \in 1..Len(DEFAULT_API_KEYS)}

\* provider.apiKey: not set, blank, or a key of the user's
UserKeys == {"", "  ", "user-key"}
Keys == PoolKeys \cup {"user-key"}
NoKey == "(none)"

\* String.prototype.trim on the keys above
Trim(key) == IF key = "  " THEN "" ELSE key

\* Number of getAvailableApiKey calls explored.
MaxDispatches == 77

KeyClockValues == {0, MINUTE_IN_MS - 1, MINUTE_IN_MS, 2 * MINUTE_IN_MS}

\* an entry of requestCounts; NoStats: the Map has no entry
Stats(count, resetTime) == [has |-> TRUE, count |-> count, resetTime |-> resetTime]
NoStats == [has |-> FALSE, count |-> 0, resetTime |-> 0]

\* mutant: the index does not advance
NextIndex_Stuck(index) == index % Len(DEFAULT_API_KEYS)

\* getNextApiKey (lines 40-45): the key returned and the index afterwards
NextKey(index) == DEFAULT_API_KEYS[index + 1]
NextIndex(index) == (index + 1) % Len(DEFAULT_API_KEYS)

\* mutant: a key is limited only above the ceiling
CeilingReached_Above(count) == count > REQUESTS_PER_MINUTE

\* line 60
CeilingReached(count) == count >= REQUESTS_PER_MINUTE

\* mutant: the window ends one millisecond late
IsKeyRateLimited_Late(counts, apiKey, t) ==
    LET keyStats == counts[apiKey]
    IN  IF ~keyStats.has THEN FALSE
        ELSE IF t - keyStats.resetTime > MINUTE_IN_MS THEN FALSE
        ELSE CeilingReached(keyStats.count)

\* isKeyRateLimited (lines 47-61): the value returned
IsKeyRateLimited(counts, apiKey, t) ==
    LET keyStats == counts[apiKey]
    IN  IF ~keyStats.has THEN FALSE
        ELSE IF t - keyStats.resetTime >= MINUTE_IN_MS THEN FALSE
        ELSE CeilingReached(keyStats.count)

\* isKeyRateLimited (lines 54-58): requestCounts after the call
AfterRateCheck(counts, apiKey, t) ==
    IF counts[apiKey].has /\ t - counts[apiKey].resetTime >= MINUTE_IN_MS
    THEN [counts EXCEPT ![apiKey] = Stats(0, t)]
    ELSE counts

\* incrementKeyUsage (lines 67-76)
IncrementKeyUsage(counts, apiKey, t) ==
    IF ~counts[apiKey].has \/ t - counts[apiKey].resetTime >= MINUTE_IN_MS
    THEN [counts EXCEPT ![apiKey] = Stats(1, t)]
    ELSE [counts EXCEPT ![apiKey] = Stats(counts[apiKey].count + 1,
                                          counts[apiKey].resetTime)]

\* mutant: the loop gives up after the first pool credential
PoolLoop_OneTry(index, counts, t, i) ==
    IF ~IsKeyRateLimited(counts, NextKey(index), t)
    THEN [key |-> NextKey(index), index |-> NextIndex(index),
          counts |-> AfterRateCheck(counts, NextKey(index), t)]
    ELSE [key |-> NoKey, index |-> NextIndex(index),
          counts |-> AfterRateCheck(counts, NextKey(index), t)]

\* the loop of lines 82-87 from its iteration i on; key = NoKey when it falls through
RECURSIVE PoolLoop(_, _, _, _)
PoolLoop(index, counts, t, i) ==
    IF i >= Len(DEFAULT_API_KEYS)
    THEN [key |-> NoKey, index |-> index, counts |-> counts]
    ELSE IF ~IsKeyRateLimited(counts, NextKey(index), t)
    THEN [key |-> NextKey(index), index |-> NextIndex(index),
          counts |-> AfterRateCheck(counts, NextKey(index), t)]
    ELSE PoolLoop(NextIndex(index), AfterRateCheck(counts, NextKey(index), t), t, i + 1)

\* line 92: this.provider.apiKey && this.provider.apiKey.trim() !== ''
HasUserKey(prov) == prov.apiKey # "" /\ Trim(prov.apiKey) # ""

\* getAvailableApiKey (lines 78-106): the key returned (NoKey when it throws), the
\* branch that returned it, and currentKeyIndex and requestCounts afterwards
GetAvailableApiKey(index, counts, prov, t) ==
    LET pool == IF hasDefaultApiKeys THEN PoolLoop(index, counts, t, 0)
                ELSE [key |-> NoKey, index |-> index, counts |-> counts]
        checked == IF HasUserKey(prov)
                   THEN AfterRateCheck(pool.counts, prov.apiKey, t)
                   ELSE pool.counts
    IN  IF pool.key # NoKey
        THEN [key |-> pool.key, path |-> "pool", index |-> pool.index,
              counts |-> pool.counts]
        ELSE IF HasUserKey(prov) /\ ~IsKeyRateLimited(pool.counts, prov.apiKey, t)
        THEN [key |-> prov.apiKey, path |-> "user", index |-> pool.index,
              counts |-> checked]
        ELSE IF hasDefaultApiKeys
        THEN [key |-> NextKey(pool.index), path |-> "anyway",
              index |-> NextIndex(pool.index), counts |-> checked]
        ELSE [key |-> NoKey, path |-> "throw", index |-> pool.index, counts |-> checked]

NoDispatch == [n |-> 0, first |-> 0, key |-> NoKey, path |-> "(none)"]

KeysStart ==
    /\ currentKeyIndex = 0
    /\ requestCounts = [key \in Keys |-> NoStats]
    /\ provider \in {[apiKey |-> key, provider |-> "gemini"] : key \in UserKeys}
    /\ hasDefaultApiKeys \in BOOLEAN
    /\ dispatch = NoDispatch

\* callGeminiAPI, lines 140-141: a credential is selected and its use is counted
Dispatch ==
    /\ dispatch.n < MaxDispatches
    /\ LET sel == GetAvailableApiKey(currentKeyIndex, requestCounts, provider, now)
       IN  /\ currentKeyIndex' = sel.index
           /\ requestCounts' = IF sel.path = "throw" THEN sel.counts
                               ELSE IncrementKeyUsage(sel.counts, sel.key, now)
           /\ dispatch' = [n |-> dispatch.n + 1,
                           first |-> IF dispatch.n = 0 THEN now ELSE dispatch.first,
                           key |-> sel.key, path |-> sel.path]
    /\ UNCHANGED <<provider, hasDefaultApiKeys, now>>
    /\ KeyFrame

\* getApiRotationStatus (lines 405-416): checkKeyRateLimit of every pool credential
RotationStatus ==
    /\ hasDefaultApiKeys
    /\ requestCounts' = [key \in Keys |->
                            IF key \in PoolKeys
                            THEN AfterRateCheck(requestCounts, key, now)[key]
                            ELSE requestCounts[key]]
    /\ requestCounts' # requestCounts
    /\ UNCHANGED <<currentKeyIndex, provider, hasDefaultApiKeys, dispatch, now>>
    /\ KeyFrame

\* the clock advances to a later reading
KeyTick(t) ==
    /\ t > now
    /\ now' = t
    /\ UNCHANGED keyVars
    /\ KeyFrame

KeysNext ==
    \/ Dispatch
    \/ RotationStatus
    \/ \E t \in KeyClockValues : KeyTick(t)

(***************************************************************************)
(*          AIService.summarizeDocument: responses and errors              *)
(***************************************************************************)

\* The texts the remote model may answer with.
ResponseTexts ==
    {"I cannot process this.",
     "{\"keyPoints\": [\"a\", \"b\", \"c\"], \"redFlags\": [{\"type\": \"arbitration\", \"description\": \"d\", \"severity\": \"high\", \"quote\": \"q\"}], \"dataRights\": [], \"riskScore\": 0.7}",
     "42"}

\* Further texts, for parseAIResponse alone.
ParseTexts ==
    ResponseTexts
        \cup {"Here you go: {\"keyPoints\": [\"a\"], \"riskScore\": 2} Hope it helps.",
              "{\"a\": 1} and {\"b\": 2}",
              "null"}

NoMatch == "(no match)"

\* responseText.match(/\{[\s\S]*\}/): from the first { to the last }, on the texts above
Match(responseText) ==
    CASE responseText = "Here you go: {\"keyPoints\": [\"a\"], \"riskScore\": 2} Hope it helps."
           -> "{\"keyPoints\": [\"a\"], \"riskScore\": 2}"
      [] responseText \in {"I cannot process this.", "42", "null"} -> NoMatch
      [] OTHER -> responseText

\* a value of JSON.parse: riskScore is Number(parsed.riskScore) || 0 in tenths, and a
\* list is <<>> unless the property is an array; isNull marks an array element that
\* is null, and a property an element lacks is ""
JsonValue(kind, keyPoints, redFlags, dataRights, riskScore) ==
    [throws |-> FALSE, kind |-> kind, keyPoints |-> keyPoints, redFlags |-> redFlags,
     dataRights |-> dataRights, riskScore |-> riskScore]

SyntaxError == [throws |-> TRUE, kind |-> "", keyPoints |-> <<>>, redFlags |-> <<>>,
                dataRights |-> <<>>, riskScore |-> 0]

\* JSON.parse on the texts above and their matches
JsonParse(jsonText) ==
    CASE jsonText = "{\"keyPoints\": [\"a\", \"b\", \"c\"], \"redFlags\": [{\"type\": \"arbitration\", \"description\": \"d\", \"severity\": \"high\", \"quote\": \"q\"}], \"dataRights\": [], \"riskScore\": 0.7}"
           -> JsonValue("object", <<"a", "b", "c">>,
                        <<[isNull |-> FALSE, type |-> "arbitration", description |-> "d",
                           severity |-> "high", quote |-> "q"]>>, <<>>, 7)
      [] jsonText = "{\"keyPoints\": [\"a\"], \"riskScore\": 2}"
           -> JsonValue("object", <<"a">>, <<>>, <<>>, 20)
      [] jsonText = "42" -> JsonValue("number", <<>>, <<>>, <<>>, 0)
      [] jsonText = "null" -> JsonValue("null", <<>>, <<>>, <<>>, 0)
      [] OTHER -> SyntaxError

Slice(seq, n) == SubSeq(seq, 1, IF Len(seq) < n THEN Len(seq) ELSE n)

FlagTypes == {"arbitration", "auto-renewal", "data-sharing", "liability", "termination"}
Severities == {"low", "medium", "high"}
RightTypes == {"access", "deletion", "portability", "correction", "opt-out"}

\* lines 326-331 and 332-337; description || ..., quote || '' and process || ... on
\* the non-empty strings above are the identity
SanitizeFlag(flag) ==
    [type |-> IF flag.type \in FlagTypes THEN flag.type ELSE "other",
     description |-> IF flag.description = "" THEN "No description provided"
                     ELSE flag.description,
     severity |-> IF flag.severity \in Severities THEN flag.severity ELSE "medium",
     quote |-> flag.quote]

SanitizeRight(right) ==
    [type |-> IF right.type \in RightTypes THEN right.type ELSE "access",
     description |-> IF right.description = "" THEN "No description provided"
                     ELSE right.description,
     available |-> right.available,
     process |-> IF right.process = "" THEN "Not specified" ELSE right.process]

\* mutant: the score has no upper limit
Clamp_NoCeiling(x) == IF x < 0 THEN 0 ELSE x

\* Math.min(1, Math.max(0, x)), in tenths
Clamp(x) == IF x < 0 THEN 0 ELSE IF x > 10 THEN 10 ELSE x

\* lines 343-348
Fallback ==
    [keyPoints |-> <<"Unable to parse the document. The content may be too complex or corrupted.">>,
     redFlags |-> <<>>, dataRights |-> <<>>, riskScore |-> 0]

\* lines 325-337: flag.type or right.type is read on a null element, which raises
Raises(parsed) ==
    \/ \E i \in 1..Len(Slice(parsed.redFlags, 5)) : parsed.redFlags[i].isNull
    \/ \E i \in 1..Len(Slice(parsed.dataRights, 5)) : parsed.dataRights[i].isNull

\* mutant: a value that is not an object is treated as a parse failure
IsParsed_ObjectOnly(parsed) == ~parsed.throws /\ parsed.kind = "object"

\* the try block of lines 315-338 completes: JSON.parse returned and reading a
\* property of its value did not raise (it does on null)
IsParsed(parsed) == ~parsed.throws /\ parsed.kind # "null"

\* lines 322-349: the validated and sanitized response, or the fallback of the catch
Validate(parsed) ==
    IF IsParsed(parsed) /\ ~Raises(parsed)
    THEN [keyPoints |-> Slice(parsed.keyPoints, 6),
          redFlags |-> [i \in 1..Len(Slice(parsed.redFlags, 5)) |->
                           SanitizeFlag(parsed.redFlags[i])],
          dataRights |-> [i \in 1..Len(Slice(parsed.dataRights, 5)) |->
                             SanitizeRight(parsed.dataRights[i])],
          riskScore |-> Clamp(parsed.riskScore)]
    ELSE Fallback

\* parseAIResponse (lines 314-351)
ParseAIResponse(responseText) ==
    LET jsonText == IF Match(responseText) # NoMatch THEN Match(responseText)
                    ELSE responseText
        parsed == JsonParse(jsonText)
    IN  Validate(parsed)

\* formatSummary (lines 353-366), without the random id and the lastUpdated stamp
FormatSummary(aiResponse, url, type) ==
    [url |-> url, type |-> type, keyPoints |-> aiResponse.keyPoints,
     redFlags |-> aiResponse.redFlags, dataRights |-> aiResponse.dataRights,
     riskScore |-> aiResponse.riskScore, cached |-> FALSE]

NoSummary == [url |-> 0, type |-> "", keyPoints |-> <<>>, redFlags |-> <<>>,
              dataRights |-> <<>>, riskScore |-> 0, cached |-> FALSE]

\* What fetch(apiUrl) settles with: rejected, or a response with a status, the
\* message of its error body, whether its body has candidates[0].content, and the text.
Response(status, detail, text) ==
    [rejected |-> FALSE, status |-> status, detail |-> detail,
     candidate |-> text # NoMatch, text |-> text]

Rejected == [rejected |-> TRUE, status |-> 0, detail |-> "Failed to fetch",
             candidate |-> FALSE, text |-> NoMatch]

Responses ==
    {Rejected,
     Response(429, "Resource has been exhausted", NoMatch),
     Response(403, "API key not valid. Please pass a valid API key.", NoMatch),
     Response(503, "Upstream request 14290 failed", NoMatch),
     Response(200, "", NoMatch)}
        \cup {Response(200, "", text) : text \in ResponseTexts}

\* String.prototype.includes('429') on the pieces messages are built from
Has429(piece) == piece \in {"429", "Upstream request 14290 failed"}
Includes429(message) == \E i \in 1..Len(message) : Has429(message[i])

\* the error callGeminiAPI raises for a response (lines 185-200); <<>> when it raises none
GeminiError(response) ==
    IF response.rejected THEN <<response.detail>>
    ELSE IF response.status # 200
    THEN IF response.status = 429
         THEN <<"API rate limit exceeded (", ToString(response.status),
                "). Our servers are busy - please try again in a moment.">>
         ELSE <<"Gemini API error: ", ToString(response.status), " - ", response.detail>>
    ELSE IF ~response.candidate THEN <<"Invalid response from Gemini API">>
    ELSE <<>>

\* the error callOpenAIAPI raises for a response (lines 241-256)
OpenAIError(response) ==
    IF response.rejected THEN <<response.detail>>
    ELSE IF response.status # 200
    THEN IF response.status = 429
         THEN <<"OpenAI rate limit exceeded (", ToString(response.status),
                "). Please try again in a moment.">>
         ELSE <<"OpenAI API error: ", ToString(response.status), " - ", response.detail>>
    ELSE IF ~response.candidate THEN <<"Invalid response from OpenAI API">>
    ELSE <<>>

RateLimitMessage ==
    <<"Rate limit exceeded. Please try again in a moment or add your own API key in settings.">>

\* the catch block of summarizeDocument (lines 124-133)
SummarizeError(message) ==
    IF Includes429(message) THEN RateLimitMessage
    ELSE <<"Failed to generate summary: ">> \o message

NoKeysMessage ==
    <<"No API keys configured. Please add your Google AI API key in settings or contact support.">>
NoOpenAIKeyMessage ==
    <<"OpenAI API key not configured. Please add your API key in settings or switch to Gemini (default).">>
NotConfiguredMessage == <<"AI provider API key not configured">>
UnsupportedMessage(name) == <<"Unsupported AI provider: ", name>>
FetchError == <<"Failed to fetch document: ", "Failed to fetch external document: ",
                "Failed to create tab">>
StorageError == <<"QUOTA_BYTES quota exceeded">>

(***************************************************************************)
(*              AIService.parseAIResponse on parsed values                 *)
(***************************************************************************)

\* The longest arrays explored, each above the cap parseAIResponse applies.
MaxKeyPoints == 7
MaxFlags == 6
MaxRights == 6

\* elements of redFlags: a known type, an unknown type with properties missing, null
FlagInputs ==
    {[isNull |-> FALSE, type |-> "arbitration", description |-> "d", severity |-> "high",
      quote |-> "q"],
     [isNull |-> FALSE, type |-> "tracking", description |-> "", severity |-> "severe",
      quote |-> ""],
     [isNull |-> TRUE, type |-> "", description |-> "", severity |-> "", quote |-> ""]}

\* elements of dataRights, likewise
RightInputs ==
    {[isNull |-> FALSE, type |-> "deletion", description |-> "d", available |-> TRUE,
      process |-> "p"],
     [isNull |-> FALSE, type |-> "erasure", description |-> "", available |-> FALSE,
      process |-> ""],
     [isNull |-> TRUE, type |-> "", description |-> "", available |-> FALSE,
      process |-> ""]}

\* arrays of up to max elements: all alike but possibly for the last
Arrays(inputs, max) ==
    {[i \in 1..n |-> IF i < n THEN e1 ELSE e2] : n \in 0..max, e1 \in inputs, e2 \in inputs}

\* Number(parsed.riskScore) || 0, in tenths: negative, 0 (also a missing or non-numeric
\* score), inside the range, its upper end, above it
RiskInputs == {-5, 0, 7, 10, 25}

\* the objects JSON.parse may return, and what it returns on the texts of ParseTexts
ParsedInputs ==
    {JsonValue("object", keyPoints, redFlags, dataRights, riskScore) :
        keyPoints \in Arrays({"p"}, MaxKeyPoints),
        redFlags \in Arrays(FlagInputs, MaxFlags),
        dataRights \in Arrays(RightInputs, MaxRights),
        riskScore \in RiskInputs}
    \cup {JsonParse(IF Match(text) # NoMatch THEN Match(text) ELSE text) :
             text \in ParseTexts}

NoParse == [in |-> SyntaxError, ran |-> FALSE, out |-> NoSummary]

ParseStart == parse \in {[NoParse EXCEPT !.in = parsed] : parsed \in ParsedInputs}

\* lines 322-349 and formatSummary (lines 353-366) on the value JSON.parse returned
ParseResponse ==
    /\ ~parse.ran
    /\ parse' = [parse EXCEPT !.ran = TRUE,
                              !.out = FormatSummary(Validate(parse.in), 1, "terms")]
    /\ ParseFrame

(***************************************************************************)
(*                  BackgroundService.generateSummary                      *)
(***************************************************************************)

SumUrls == {1, 2, 3}
Reqs == {1, 2}
ProviderNames == {"gemini", "openai", "local"}

\* Number of generateSummary calls, settings updates and cache clears explored.
MaxRequests == 3

\* the type the caller passes with each url
TypeOf(url) == "terms"

\* settings.cacheExpiry, in days: background.ts:40 sets 30 by default; the model runs the
\* same code with a setting whose milliseconds fit the model's integers.
cacheExpiry == 1
BgExpiryMs == cacheExpiry * 24 * 60 * 60 * 1000

SumClockValues == {0, BgExpiryMs, BgExpiryMs + 1}

NoCacheEntry == [has |-> FALSE, summary |-> NoSummary, timestamp |-> 0, hits |-> 0]

\* isCacheExpired (lines 386-389)
IsCacheExpired(entry, t) == t > entry.timestamp + BgExpiryMs

\* mutant: the lookup ignores the cache
IsHit_Never(cached, t) == cached.has /\ ~cached.has

\* line 129: cached && !this.isCacheExpired(cached)
IsHit(cached, t) == cached.has /\ ~IsCacheExpired(cached, t)

\* mutant: the entry is stored with no hit counted
NewCacheEntry_NoHit(summary, t) ==
    [has |-> TRUE, summary |-> summary, timestamp |-> t, hits |-> 0]

\* lines 143-148
NewCacheEntry(summary, t) == [has |-> TRUE, summary |-> summary, timestamp |-> t, hits |-> 1]

NoResponse == [rejected |-> FALSE, status |-> 0, detail |-> "", candidate |-> FALSE,
               text |-> NoMatch]

IdleReq == [pc |-> "idle", url |-> 0, key |-> NoKey, apiKey |-> "", response |-> NoResponse,
            summary |-> NoSummary, attempts |-> 0]

\* what a generateSummary call returned or raised, and what it did on the way:
\* fetched: fetchDocument was called; key: the credential of the remote call, NoKey when
\* none was made; apiKey: settings.aiProvider.apiKey as createAISummary read it;
\* analysed: summarizeDocument returned summary; attempts: how many times the remote
\* endpoint was called
Outcome(req, kind, message, summary, hit, fetched, analysed) ==
    [n |-> done.n + 1, kind |-> kind, url |-> req.url, message |-> message,
     summary |-> summary, hit |-> hit, fetched |-> fetched, key |-> req.key,
     apiKey |-> req.apiKey, response |-> req.response, analysed |-> analysed,
     attempts |-> req.attempts]

NothingDone ==
    [n |-> 0, kind |-> "(none)", url |-> 0, message |-> <<>>, summary |-> NoSummary,
     hit |-> FALSE, fetched |-> FALSE, key |-> NoKey, apiKey |-> "",
     response |-> NoResponse, analysed |-> FALSE, attempts |-> 0]

SumStart ==
    /\ bgCache = [url \in SumUrls |-> NoCacheEntry]
    /\ cacheEnabled \in BOOLEAN
    /\ reqs = [r \in Reqs |-> IdleReq]
    /\ done = NothingDone
    /\ nreq = 0
    /\ currentKeyIndex = 0
    /\ requestCounts = [key \in Keys |-> NoStats]
    /\ provider \in {[apiKey |-> key, provider |-> name] :
                        key \in UserKeys, name \in ProviderNames}
    /\ hasDefaultApiKeys \in BOOLEAN
    /\ dispatch = NoDispatch

\* the lowest call slot that is free
FreeReq(r) == reqs[r].pc = "idle" /\ \A q \in Reqs : q < r => reqs[q].pc # "idle"

\* generateSummary(url, type), lines 126-136: up to saveCache() on a hit, up to
\* fetchDocument() on a miss
Summarize(r, url) ==
    /\ FreeReq(r)
    /\ nreq < MaxRequests
    /\ nreq' = nreq + 1
    /\ url = 1 \/ nreq > 0      \* the urls are interchangeable: the first one asked is 1
    /\ url = 3 => bgCache[1].has /\ bgCache[2].has   \* a third one once two are cached
    /\ IF IsHit(bgCache[url], now)
       THEN /\ bgCache' = [bgCache EXCEPT ![url].hits = @ + 1]
            /\ reqs' = [reqs EXCEPT ![r] = [IdleReq EXCEPT !.pc = "saveHit", !.url = url,
                                            !.summary = bgCache[url].summary]]
       ELSE /\ reqs' = [reqs EXCEPT ![r] = [IdleReq EXCEPT !.pc = "fetch", !.url = url]]
            /\ UNCHANGED bgCache
    /\ UNCHANGED <<cacheEnabled, done, keyVars, now>>
    /\ SumFrame

\* lines 131-132: saveCache() settles and the cached summary is returned
SaveHit(r) ==
    /\ reqs[r].pc = "saveHit"
    /\ \E ok \in BOOLEAN :
         done' = IF ok
                 THEN Outcome(reqs[r], "summary", <<>>, reqs[r].summary, TRUE, FALSE, FALSE)
                 ELSE Outcome(reqs[r], "error", StorageError, NoSummary, TRUE, FALSE, FALSE)
    /\ reqs' = [reqs EXCEPT ![r] = IdleReq]
    /\ UNCHANGED <<bgCache, cacheEnabled, nreq, keyVars, now>>
    /\ SumFrame

\* mutant: the entry of the url is dropped when its document cannot be fetched
FetchFail_DropsEntry(r) ==
    /\ reqs[r].pc = "fetch"
    /\ done' = Outcome(reqs[r], "error", FetchError, NoSummary, FALSE, TRUE, FALSE)
    /\ reqs' = [reqs EXCEPT ![r] = IdleReq]
    /\ bgCache' = [bgCache EXCEPT ![reqs[r].url] = NoCacheEntry]
    /\ UNCHANGED <<cacheEnabled, nreq, keyVars, now>>
    /\ SumFrame

\* line 136: fetchDocument() raises
FetchFail(r) ==
    /\ reqs[r].pc = "fetch"
    /\ done' = Outcome(reqs[r], "error", FetchError, NoSummary, FALSE, TRUE, FALSE)
    /\ reqs' = [reqs EXCEPT ![r] = IdleReq]
    /\ UNCHANGED <<bgCache, cacheEnabled, nreq, keyVars, now>>
    /\ SumFrame

\* line 136 returns the text; createAISummary (lines 267-274) and summarizeDocument
\* (lines 108-122) run up to the fetch of callGeminiAPI (lines 136-147) or of
\* callOpenAIAPI (lines 203-212)
CreateAISummary(r) ==
    /\ reqs[r].pc = "fetch"
    /\ LET req == [reqs[r] EXCEPT !.apiKey = provider.apiKey]
           sel == GetAvailableApiKey(currentKeyIndex, requestCounts, provider, now)
           raise(message) ==
               /\ done' = Outcome(req, "error", message, NoSummary, FALSE, TRUE, FALSE)
               /\ reqs' = [reqs EXCEPT ![r] = IdleReq]
       IN  IF provider.apiKey = ""
           THEN /\ raise(NotConfiguredMessage)
                /\ UNCHANGED <<currentKeyIndex, requestCounts, dispatch>>
           ELSE IF provider.provider = "gemini"
           THEN /\ currentKeyIndex' = sel.index
                /\ requestCounts' = IF sel.path = "throw" THEN sel.counts
                                    ELSE IncrementKeyUsage(sel.counts, sel.key, now)
                /\ dispatch' = [n |-> dispatch.n + 1,
                                first |-> IF dispatch.n = 0 THEN now ELSE dispatch.first,
                                key |-> sel.key, path |-> sel.path]
                /\ IF sel.path = "throw"
                   THEN raise(SummarizeError(NoKeysMessage))
                   ELSE /\ reqs' = [reqs EXCEPT ![r] = [req EXCEPT !.pc = "remote",
                                                                 !.key = sel.key,
                                                                 !.attempts = 1]]
                        /\ UNCHANGED done
           ELSE IF provider.provider = "openai"
           THEN /\ IF ~HasUserKey(provider)
                   THEN raise(SummarizeError(NoOpenAIKeyMessage))
                   ELSE /\ reqs' = [reqs EXCEPT ![r] = [req EXCEPT !.pc = "remote",
                                                                 !.key = provider.apiKey,
                                                                 !.attempts = 1]]
                        /\ UNCHANGED done
                /\ UNCHANGED <<currentKeyIndex, requestCounts, dispatch>>
           ELSE /\ raise(SummarizeError(UnsupportedMessage(provider.provider)))
                /\ UNCHANGED <<currentKeyIndex, requestCounts, dispatch>>
    /\ UNCHANGED <<bgCache, cacheEnabled, nreq, provider, hasDefaultApiKeys, now>>
    /\ SumFrame

\* the remote call settles with response: the rest of callGeminiAPI / callOpenAIAPI,
\* of summarizeDocument, and generateSummary lines 139-152 up to saveCache()
RemoteDone(r, response) ==
    /\ reqs[r].pc = "remote"
    /\ LET req == [reqs[r] EXCEPT !.response = response]
           error == IF req.key \in PoolKeys \/ provider.provider = "gemini"
                    THEN GeminiError(response) ELSE OpenAIError(response)
           summary == FormatSummary(ParseAIResponse(response.text), req.url,
                                    TypeOf(req.url))
       IN  IF error # <<>>
           THEN /\ done' = Outcome(req, "error", SummarizeError(error), NoSummary,
                                   FALSE, TRUE, FALSE)
                /\ reqs' = [reqs EXCEPT ![r] = IdleReq]
                /\ UNCHANGED bgCache
           ELSE IF cacheEnabled
           THEN /\ bgCache' = [bgCache EXCEPT ![req.url] = NewCacheEntry(summary, now)]
                /\ reqs' = [reqs EXCEPT ![r] = [req EXCEPT !.pc = "saveMiss",
                                                           !.summary = summary]]
                /\ UNCHANGED done
           ELSE /\ done' = Outcome(req, "summary", <<>>, summary, FALSE, TRUE, TRUE)
                /\ reqs' = [reqs EXCEPT ![r] = IdleReq]
                /\ UNCHANGED bgCache
    /\ UNCHANGED <<cacheEnabled, nreq, keyVars, now>>
    /\ SumFrame

\* lines 149-152: saveCache() settles and the new summary is returned
SaveMiss(r) ==
    /\ reqs[r].pc = "saveMiss"
    /\ \E ok \in BOOLEAN :
         done' = IF ok
                 THEN Outcome(reqs[r], "summary", <<>>, reqs[r].summary, FALSE, TRUE, TRUE)
                 ELSE Outcome(reqs[r], "error", StorageError, NoSummary, FALSE, TRUE, TRUE)
    /\ reqs' = [reqs EXCEPT ![r] = IdleReq]
    /\ UNCHANGED <<bgCache, cacheEnabled, nreq, keyVars, now>>
    /\ SumFrame

\* updateSettings (lines 366-371) with a new cacheEnabled
UpdateSettings(enabled) ==
    /\ nreq < MaxRequests
    /\ nreq' = nreq + 1
    /\ enabled # cacheEnabled
    /\ cacheEnabled' = enabled
    /\ UNCHANGED <<bgCache, reqs, done, keyVars, now>>
    /\ SumFrame

\* the clock advances to a later reading
SumTick(t) ==
    /\ t > now
    /\ now' = t
    /\ UNCHANGED <<sumVars, keyVars>>
    /\ SumFrame

SumNext ==
    \/ \E r \in Reqs, url \in SumUrls : Summarize(r, url)
    \/ \E r \in Reqs : SaveHit(r)
    \/ \E r \in Reqs : FetchFail(r)
    \/ \E r \in Reqs : CreateAISummary(r)
    \/ \E r \in Reqs, response \in Responses : RemoteDone(r, response)
    \/ \E r \in Reqs : SaveMiss(r)
    \/ \E enabled \in BOOLEAN : UpdateSettings(enabled)
    \/ \E t \in SumClockValues : SumTick(t)

(***************************************************************************)
(*                           Specifications                                *)
(***************************************************************************)

ScanIdle ==
    /\ dom = <<>>
    /\ detectedLinks = <<>>
    /\ indicators = {}
    /\ isInitialized = FALSE
    /\ observing = FALSE
    /\ idlePending = 0
    /\ timers = {}
    /\ lastExecTime = 0
    /\ sent = NothingSent
    /\ env = [idle |-> TRUE, ready |-> FALSE, rescans |-> 0]
    /\ scanLog = NoScan

RetryIdle == retry = NoError /\ calls = <<>> /\ waits = <<>>

KeysIdle ==
    /\ currentKeyIndex = 0
    /\ requestCounts = [key \in Keys |-> NoStats]
    /\ provider = [apiKey |-> "", provider |-> "gemini"]
    /\ hasDefaultApiKeys = FALSE
    /\ dispatch = NoDispatch

ParseIdle == parse = NoParse

ClassifyIdle == analysis = NoAnalysis

SumIdle ==
    /\ bgCache = [url \in SumUrls |-> NoCacheEntry]
    /\ cacheEnabled = TRUE
    /\ reqs = [r \in Reqs |-> IdleReq]
    /\ done = NothingDone
    /\ nreq = 0

CacheInit ==
    /\ CacheStart /\ RetryIdle /\ ScanIdle /\ KeysIdle /\ SumIdle /\ ParseIdle
    /\ ClassifyIdle

SpecCache == CacheInit /\ [][CacheNext]_vars

RetryInit ==
    /\ RetryStart /\ CacheStart /\ ScanIdle /\ KeysIdle /\ SumIdle /\ ParseIdle
    /\ ClassifyIdle

SpecRetry == RetryInit /\ [][RetryNext]_vars

ScanNext ==
    \/ PageReady
    \/ IdleScan
    \/ \E t \in timers : InitScanTimer(t)
    \/ \E t \in timers : DelayedTimer(t)
    \/ \E t \in timers : ThrottleTimer(t)
    \/ \E el \in Elements : Mutate(el)
    \/ Rescan
    \/ \E t \in timers : RescanTimer(t)
    \/ ScanTick

ScanInit ==
    /\ ScanStart
    /\ now = PageLoadTime
    /\ store = <<>> /\ proc = [p \in Procs |-> IdleProc] /\ last = NoCall
    /\ cleared = FALSE /\ order = <<>> /\ nops = 0 /\ nused = 0
    /\ RetryIdle
    /\ KeysIdle
    /\ SumIdle
    /\ ParseIdle
    /\ ClassifyIdle

SpecScan == ScanInit /\ [][ScanNext]_vars

\* One page, holding the 'Privacy Policy' link when the script loads. Time passes and
\* a setTimeout callback that is due runs: the event loop of the page does both.
ScanLiveInit == ScanInit /\ dom = <<1>>

ScanLiveNext == ScanNext \/ TimerTick

SpecScanLive ==
    /\ ScanLiveInit
    /\ [][ScanLiveNext]_vars
    /\ WF_vars(ScanTick)
    /\ WF_vars(TimerTick)
    /\ WF_vars(\E t \in timers : ThrottleTimer(t))

KeysInit ==
    /\ KeysStart /\ CacheStart /\ RetryIdle /\ ScanIdle /\ SumIdle /\ ParseIdle
    /\ ClassifyIdle

SpecKeys == KeysInit /\ [][KeysNext]_vars

SumInit ==
    /\ SumStart /\ CacheStart /\ RetryIdle /\ ScanIdle /\ ParseIdle
    /\ ClassifyIdle

ParseInit ==
    /\ ParseStart /\ CacheStart /\ RetryIdle /\ ScanIdle /\ KeysIdle /\ SumIdle
    /\ ClassifyIdle

ParseNext == ParseResponse

SpecParse == ParseInit /\ [][ParseNext]_vars

\* analyzeLink (content.ts:227-278) is called on the anchor
ClassifyAnchor ==
    /\ ~analysis.ran
    /\ analysis' = [analysis EXCEPT !.ran = TRUE, !.out = Analyze(analysis.in, 1)]
    /\ ClassifyFrame

ClassifyInit ==
    /\ ClassifyStart /\ CacheStart /\ RetryIdle /\ ScanIdle /\ KeysIdle /\ SumIdle
    /\ ParseIdle

ClassifyNext == ClassifyAnchor

SpecClassify == ClassifyInit /\ [][ClassifyNext]_vars

SpecSummarize == SumInit /\ [][SumNext]_vars

(***************************************************************************)
(*                       SmartCache: the claims                            *)
(***************************************************************************)

Entries(cache) == {cache[i] : i \in 1..Len(cache)}

\* url f comes before url e in the access history
Before(ord, f, e) ==
    \E i, j \in 1..Len(ord) : i < j /\ ord[i] = f /\ ord[j] = e

\* the step in which call p returns
Returns(p, op) == proc[p].pc = op /\ proc'[p].pc = "idle"

\* ... having written the store, with no other write since it read the store
WritesAlone(p, op) == Returns(p, op) /\ ~last'.failed /\ proc[p].cache = store

\* C2: the number of stored entries never exceeds the capacity, whatever the
\* interleaving of get, set and clear.
C2_CapacityBound == Len(store) <= MAX_CACHE_SIZE

C2_Witness ==
    /\ last.op = "set"
    /\ last.evicted # NoEntry
    /\ last.overlap
    /\ Len(store) = MAX_CACHE_SIZE

\* C3: a set of a new key on a full store leaves exactly capacity entries; the one key
\* that went missing is one whose lastAccessed was the oldest when the set ran.
C3_EvictsOldest ==
    [][\A p \in Procs :
         (/\ WritesAlone(p, "set")
          /\ Len(store) = MAX_CACHE_SIZE
          /\ ~HasKey(store, proc[p].url))
         => /\ Len(store') = MAX_CACHE_SIZE
            /\ HasKey(store', proc[p].url)
            /\ \E e \in Entries(store) :
                 /\ ~HasKey(store', e.url)
                 /\ \A f \in Entries(store) :
                      /\ e.lastAccessed <= f.lastAccessed
                      /\ f # e => Lookup(store', f.url) = f]_vars

\* capacity+1 sets of distinct keys and nothing else, the last one having evicted
C3_Witness ==
    /\ nops = MAX_CACHE_SIZE + 1
    /\ nused = MAX_CACHE_SIZE + 1
    /\ last.op = "set"
    /\ last.evicted # NoEntry
    /\ ~HasKey(store, last.evicted.url)
    /\ Len(store) = MAX_CACHE_SIZE

\* C4 as claimed: an entry that was read after another entry was last inserted or
\* read is never the one a set evicts, whatever clock readings the calls observed.
C4_Original ==
    [][\A p \in Procs :
         (WritesAlone(p, "set") /\ IsFull(store) /\ ~HasKey(store, proc[p].url))
         => ~ \E f \in Entries(store) :
                /\ last'.evicted.hits > 0
                /\ Before(order, f.url, last'.evicted.url)]_vars

\* C4 amended: a get that hits sets lastAccessed to the clock reading it observes, and
\* an entry that was read after another entry's last insert or read is evicted in its
\* place only when both carry the same lastAccessed reading.
C4_RecencyUpToTies ==
    [][\A p \in Procs :
         /\ (WritesAlone(p, "get") /\ last'.hit)
            => Lookup(store', proc[p].url).lastAccessed = now
         /\ (WritesAlone(p, "set") /\ IsFull(store))
            => \A f \in Entries(store) :
                 (/\ last'.evicted.hits > 0
                  /\ Before(order, f.url, last'.evicted.url))
                 => f.lastAccessed = last'.evicted.lastAccessed]_vars

\* set A, set B, get A at a later reading, set C: B went, A stayed
C4_Witness ==
    /\ last.op = "set"
    /\ ~last.overlap
    /\ last.evicted # NoEntry
    /\ last.evicted.hits = 0
    /\ \E a \in Entries(store) :
         /\ a.hits > 0
         /\ a.timestamp <= last.evicted.timestamp
         /\ a.lastAccessed > last.evicted.lastAccessed

\* C5: set(k, v) stores v with hitCount 0; every get(k) before expiry returns v and
\* raises the stored hitCount by exactly 1, leaving the payload in place.
C5_RoundTrip ==
    [][\A p \in Procs :
         /\ (Returns(p, "set") /\ ~last'.failed)
            => /\ Lookup(store', proc[p].url).data = proc[p].data
               /\ Lookup(store', proc[p].url).hits = 0
         /\ (/\ WritesAlone(p, "get")
             /\ HasKey(store, proc[p].url)
             /\ now - Lookup(store, proc[p].url).timestamp <= CACHE_EXPIRY_MS)
            => /\ last'.ret = Lookup(store, proc[p].url).data
               /\ Lookup(store', proc[p].url).data = Lookup(store, proc[p].url).data
               /\ Lookup(store', proc[p].url).hits = Lookup(store, proc[p].url).hits + 1]_vars

\* set(k, v) followed by two gets of k and nothing else
C5_Witness ==
    /\ nops = 3
    /\ last.op = "get"
    /\ last.hit
    /\ last.ret = Lookup(store, last.url).data
    /\ last.ret # Null
    /\ Lookup(store, last.url).hits = 2

\* C6: a get(k) when now - createdAt(k) exceeds the TTL returns none and removes k and
\* nothing else from the store; a get(k) at or before the TTL returns the payload and
\* removes nothing.
C6_TtlExpiry ==
    [][\A p \in Procs :
         (WritesAlone(p, "get") /\ HasKey(store, proc[p].url))
         => LET k == proc[p].url
            IN  IF now - Lookup(store, k).timestamp > CACHE_EXPIRY_HOURS * 60 * 60 * 1000
                THEN /\ last'.ret = Null
                     /\ ~HasKey(store', k)
                     /\ Len(store') = Len(store) - 1
                     /\ \A f \in Entries(store) : f.url # k => Lookup(store', f.url) = f
                ELSE /\ last'.ret = Lookup(store, k).data
                     /\ Len(store') = Len(store)
                     /\ \A f \in Entries(store) : HasKey(store', f.url)]_vars

\* an expired read that removed its entry and left another one in the store
C6_Witness ==
    /\ last.op = "get"
    /\ last.expired
    /\ ~last.overlap
    /\ last.ret = Null
    /\ ~HasKey(store, last.url)
    /\ Len(store) >= 1

\* C7 as claimed: the stored hitCount of a key never decreases in a step unless that
\* step evicted or expired the entry.
C7_HitsMonotone ==
    [][\A u \in CacheUrls :
         (/\ HasKey(store, u)
          /\ HasKey(store', u)
          /\ ~(\E p \in Procs : proc[p].pc # "idle" /\ proc'[p].pc = "idle"
                                /\ last'.evicted.url = u))
         => Lookup(store', u).hits >= Lookup(store, u).hits]_vars

\* C33 as claimed: when a get or set completes, whatever another call did to a
\* different key since this call read the store is still there: an entry of another
\* key is kept as it is (unless this call evicted it to make room), and another key
\* that is no longer stored does not come back.
C33_OverlapKeepsBoth ==
    [][\A p \in Procs :
         (proc[p].pc # "idle" /\ proc'[p].pc = "idle")
         => \A u \in CacheUrls \ {proc[p].url} :
              /\ (HasKey(store, u) /\ last'.evicted.url # u)
                 => (HasKey(store', u) /\ Lookup(store', u) = Lookup(store, u))
              /\ ~HasKey(store, u) => ~HasKey(store', u)]_vars

\* C8 as claimed: once clear() has completed and until a set is called, the store is
\* empty, stats reports no entries and every get that completes returns none.
C8_ClearedStaysEmpty ==
    cleared => /\ Len(store) = 0
               /\ last.op = "get" => last.ret = Null
               /\ last.op = "stats" => last.stats[1] = 0

\* C9: no SmartCache call raises; when the storage read or write raises, get returns
\* none and stats returns {totalEntries: 0, totalHits: 0}.
C9_FailOpen ==
    /\ ~last.raised
    /\ last.failed =>
         /\ last.op = "get" => last.ret = Null
         /\ last.op = "stats" => last.stats = <<0, 0>>

\* a get of a stored, unexpired key whose storage call raised
C9_Witness ==
    /\ last.op = "get"
    /\ last.failed
    /\ HasKey(store, last.url)
    /\ ~IsExpired(Lookup(store, last.url), now)

(***************************************************************************)
(*                       RetryHelper: the claims                           *)
(***************************************************************************)

\* the errors the claim calls non-retryable
NonRetryable(e) ==
    \/ e.message \in {"Unauthorized", "403 Forbidden", "Invalid API key", "Quota Exceeded"}
    \/ e.status \in 400..499

\* C10: a non-retryable failure is the last invocation: withRetry raises that same
\* error at once, having waited only before the earlier retries; if it is the first
\* failure, the operation was invoked exactly once.
C10_NoRetryOnFatal ==
    \A i \in 1..Len(calls) :
        (calls[i] # Success /\ NonRetryable(calls[i]))
        => /\ i = Len(calls)
           /\ retry.pc = "thrown"
           /\ retry.thrown = calls[i]
           /\ Len(waits) = i - 1

\* a first failure that is non-retryable, by its status alone, with retries allowed
C10_Witness ==
    /\ Len(calls) = 1
    /\ calls[1].status = 400
    /\ retry.maxRetries > 0
    /\ retry.pc = "thrown"

\* every invocation so far failed with an error that shouldNotRetry lets through
AllRetryable(n) == \A i \in 1..n : calls[i] # Success /\ ~NonRetryable(calls[i])

\* C11: after k retryable failures, k <= maxRetries - 1, withRetry has not raised and
\* goes on to another invocation; when that invocation succeeds withRetry returns the
\* success, the operation having been invoked k + 1 <= maxRetries times, and it is
\* never invoked again.
C11_SucceedsAfterRetries ==
    \A k \in 0..(retry.maxRetries - 1) :
        /\ (Len(calls) = k /\ AllRetryable(k)) => retry.pc \in {"call", "wait"}
        /\ (Len(calls) > k /\ AllRetryable(k) /\ calls[k + 1] = Success)
           => /\ retry.pc = "returned"
              /\ retry.returned
              /\ retry.thrown = NoError
              /\ Len(calls) = k + 1
              /\ Len(calls) <= retry.maxRetries

\* two retryable failures, then a success
C11_Witness ==
    /\ Len(calls) = 3
    /\ AllRetryable(2)
    /\ calls[3] = Success
    /\ retry.pc = "returned"

\* the scheduling of the wait timers and of the operation's settlement
SpecRetryLive == SpecRetry /\ WF_vars(RetryNext)

\* C12: withRetry terminates; while every invocation fails with a retryable error the
\* operation is invoked at most maxRetries + 1 times, withRetry raises exactly when
\* that many invocations have failed, and it raises the error of the last one.
C12_ExhaustsAndRaises ==
    /\ <>(retry.pc \in {"returned", "thrown"})
    /\ [](AllRetryable(Len(calls))
          => /\ Len(calls) <= retry.maxRetries + 1
             /\ (retry.pc = "thrown") = (Len(calls) = retry.maxRetries + 1)
             /\ (retry.pc = "thrown") => retry.thrown = calls[Len(calls)]
             /\ ~retry.returned)

\* maxRetries = 3 and four retryable failures: withRetry has raised
C12_Witness ==
    /\ retry.maxRetries = 3
    /\ Len(calls) = 4
    /\ AllRetryable(4)
    /\ retry.pc = "thrown"
    /\ Len(waits) = 3

\* C30: the wait before retry number n is delay * 2^(n-1) with backoff and delay
\* without; there is one wait per retry and at most maxRetries of them, and none after
\* the failure withRetry raises (a non-retryable one, or that of the last attempt);
\* with maxRetries 3, delay 1000 and backoff, four retryable failures are separated by
\* waits of 1000, 2000 and 4000 ms.
C30_BackoffSchedule ==
    /\ \A n \in 1..Len(waits) :
         waits[n] = IF retry.backoff THEN retry.delay * 2^(n - 1) ELSE retry.delay
    /\ Len(waits) = retry.attempt
    /\ Len(waits) <= retry.maxRetries
    /\ retry.pc \in {"thrown", "returned", "wait"} => Len(waits) = Len(calls) - 1
    /\ retry.pc = "call" => Len(waits) = Len(calls)
    /\ (/\ retry.maxRetries = 3 /\ retry.delay = 1000 /\ retry.backoff
        /\ retry.pc = "thrown" /\ AllRetryable(Len(calls)))
       => waits = <<1000, 2000, 4000>>

\* the default arguments and four retryable failures: withRetry has raised after
\* waiting 1000, 2000 and 4000 ms
C30_Witness ==
    /\ retry.maxRetries = 3 /\ retry.delay = 1000 /\ retry.backoff
    /\ retry.pc = "thrown"
    /\ Len(calls) = 4
    /\ AllRetryable(4)
    /\ waits = <<1000, 2000, 4000>>

(***************************************************************************)
(*                        AIService: the claims                            *)
(***************************************************************************)

Count(key) == requestCounts[key].count

\* the dispatches that fill every pool credential to its ceiling
FullRound == Len(DEFAULT_API_KEYS) * REQUESTS_PER_MINUTE

\* C13: with a configured pool and all counts at 0, during the first 60 dispatches made
\* within one window the requests go round the pool, so no count exceeds 15 and after
\* the 60th every pool credential has exactly 15.
C13_EvenRotation ==
    (/\ hasDefaultApiKeys
     /\ dispatch.n <= FullRound
     /\ now - dispatch.first < MINUTE_IN_MS)
    => \A i \in 1..Len(DEFAULT_API_KEYS) :
         /\ Count(DEFAULT_API_KEYS[i]) = (dispatch.n + Len(DEFAULT_API_KEYS) - i)
                                            \div Len(DEFAULT_API_KEYS)
         /\ Count(DEFAULT_API_KEYS[i]) <= REQUESTS_PER_MINUTE
         /\ dispatch.n = FullRound => Count(DEFAULT_API_KEYS[i]) = REQUESTS_PER_MINUTE

\* the 60th dispatch of one window has been made
C13_Witness ==
    /\ hasDefaultApiKeys
    /\ dispatch.n = FullRound
    /\ now > dispatch.first
    /\ now - dispatch.first < MINUTE_IN_MS
    /\ \A key \in PoolKeys : Count(key) = REQUESTS_PER_MINUTE

\* C14 as claimed: credential selection raises exactly when the pool is unconfigured and
\* the user supplied no credential.
C14_RaisesOnlyUnconfigured ==
    dispatch.n > 0
    => ((dispatch.path = "throw") <=> (~hasDefaultApiKeys /\ ~HasUserKey(provider)))

\* C16 as claimed: no credential's count within a window exceeds the ceiling.
C16_Original == \A key \in Keys : Count(key) <= REQUESTS_PER_MINUTE

\* C16, amended: a dispatch raises a credential's count above the ceiling only when the
\* pool is configured, every pool credential is at its ceiling and the user's
\* credential is absent or at its ceiling; it is then a pool credential.
C16_CeilingUnlessExhausted ==
    [][\A key \in Keys :
         (/\ requestCounts'[key].count > requestCounts[key].count
          /\ requestCounts'[key].count > REQUESTS_PER_MINUTE)
         => /\ key \in PoolKeys
            /\ hasDefaultApiKeys
            /\ \A p \in PoolKeys : IsKeyRateLimited(requestCounts, p, now)
            /\ HasUserKey(provider)
               => IsKeyRateLimited(requestCounts, provider.apiKey, now)]_vars

\* a dispatch went ahead with a pool credential that was at its ceiling
C16_Witness ==
    /\ dispatch.path = "anyway"
    /\ Count(dispatch.key) = REQUESTS_PER_MINUTE + 1

\* the requests already counted for key in the rate window that is open now
WindowCount(key) ==
    IF requestCounts[key].has /\ now - requestCounts[key].resetTime < MINUTE_IN_MS
    THEN requestCounts[key].count
    ELSE 0

\* isKeyRateLimited(key) as a call would answer in the current state
Limited(key) == IsKeyRateLimited(requestCounts, key, now)

\* C26: a call of getAvailableApiKey returns a pool credential that is not limited
\* whenever the pool is configured and has one; it returns the user's credential only
\* when the pool is unconfigured or every pool credential is limited; and it returns a
\* limited credential only when every pool credential is limited and the user's
\* credential is absent or limited.
C26_SelectionOrder ==
    [][dispatch'.n # dispatch.n =>
         /\ (hasDefaultApiKeys /\ \E p \in PoolKeys : ~Limited(p))
              => (dispatch'.key \in PoolKeys /\ ~Limited(dispatch'.key))
         /\ (dispatch'.key \notin PoolKeys /\ dispatch'.key # NoKey)
              => /\ dispatch'.key = provider.apiKey
                 /\ ~hasDefaultApiKeys \/ \A p \in PoolKeys : Limited(p)
         /\ (dispatch'.key # NoKey /\ Limited(dispatch'.key))
              => /\ hasDefaultApiKeys
                 /\ \A p \in PoolKeys : Limited(p)
                 /\ ~HasUserKey(provider) \/ Limited(provider.apiKey)]_vars

\* with three pool credentials limited and the one before the rotation index free
\* again, the free one was returned
C26_Witness ==
    /\ dispatch.path = "pool"
    /\ Count(dispatch.key) = 2
    /\ \A p \in PoolKeys \ {dispatch.key} : Limited(p)

\* every pool credential and the user's credential were limited, and a pool credential
\* was returned all the same
C26_WitnessAnyway ==
    /\ dispatch.path = "anyway"
    /\ HasUserKey(provider)
    /\ Count(provider.apiKey) = REQUESTS_PER_MINUTE

\* C28: a credential whose count is at or above the ceiling is reported limited exactly
\* while now - resetTime is below 60 s; and a dispatch that uses a credential whose
\* window has run out, or was reset by a check, leaves it with count 1 in a window that
\* is open, begun at the dispatch when the window had run out.
C28_WindowReset ==
    [][\A key \in Keys :
         /\ (requestCounts[key].has /\ CeilingReached(requestCounts[key].count))
              => (Limited(key) <=> now - requestCounts[key].resetTime < MINUTE_IN_MS)
         /\ (/\ dispatch'.n # dispatch.n
             /\ dispatch'.key = key
             /\ requestCounts[key].has
             /\ WindowCount(key) = 0)
              => /\ requestCounts'[key].count = 1
                 /\ now - requestCounts'[key].resetTime < MINUTE_IN_MS
                 /\ now - requestCounts[key].resetTime >= MINUTE_IN_MS
                      => requestCounts'[key] = Stats(1, now)]_vars

\* the user's credential took 15 requests in one window and the 16th exactly 60 s after
\* the first: it was served, and began a new window with count 1
C28_Witness ==
    /\ ~hasDefaultApiKeys
    /\ dispatch.n = REQUESTS_PER_MINUTE + 1
    /\ dispatch.key = "user-key"
    /\ now - dispatch.first = MINUTE_IN_MS
    /\ requestCounts["user-key"] = Stats(1, now)

(***************************************************************************)
(*                     generateSummary: the claims                         *)
(***************************************************************************)

\* createAISummary was reached: the document was fetched
ReachedAI(outcome) == outcome.fetched /\ outcome.message # FetchError

\* C15 as claimed: with a configured pool and an empty user-supplied credential, a
\* summarize request whose document was fetched makes its remote call with a pool
\* credential.
C15_PoolServesEmptyUserKey ==
    (/\ hasDefaultApiKeys
     /\ provider.provider = "gemini"
     /\ done.kind # "(none)"
     /\ ReachedAI(done)
     /\ done.apiKey = "")
    => /\ done.key \in PoolKeys
       /\ done.message # NotConfiguredMessage

\* the answers that contain no JSON object
NoJsonObject(text) == text \in {"I cannot process this.", "42"}

Degraded(summary) ==
    /\ Len(summary.keyPoints) = 1
    /\ summary.redFlags = <<>>
    /\ summary.dataRights = <<>>
    /\ summary.riskScore = 0

\* C17 as claimed: when the answer's text has no JSON object, summarizeDocument raises
\* nothing and returns a summary with exactly one key point, no red flags, no data
\* rights and riskScore 0.
C17_DegradedOnNoObject ==
    /\ \A r \in Reqs :
         (reqs[r].pc = "saveMiss" /\ NoJsonObject(reqs[r].response.text))
         => Degraded(reqs[r].summary)
    /\ (done.kind = "summary" /\ ~done.hit /\ NoJsonObject(done.response.text))
       => Degraded(done.summary)
    /\ (done.kind = "error" /\ NoJsonObject(done.response.text))
       => done.message = StorageError

\* the entry of url is present and now is not past its expiry
Unexpired(url) == bgCache[url].has /\ now <= bgCache[url].timestamp + BgExpiryMs

\* C18 as claimed: a request that finds an unexpired entry returns the stored summary
\* and neither fetches the document nor calls the remote model; a miss whose analysis
\* succeeded with caching enabled stores its result under url, where a lookup before
\* expiry hits.
C18_ReadThrough ==
    /\ [](done.hit => /\ done.kind = "summary"
                      /\ ~done.fetched
                      /\ done.key = NoKey
                      /\ done.response = NoResponse)
    /\ [][\A r \in Reqs :
            /\ (reqs[r].pc = "idle" /\ reqs'[r].pc # "idle" /\ Unexpired(reqs'[r].url))
               => /\ reqs'[r].pc = "saveHit"
                  /\ reqs'[r].summary = bgCache[reqs'[r].url].summary
            /\ (reqs[r].pc = "saveHit" /\ reqs'[r].pc = "idle")
               => /\ done'.hit
                  /\ done'.summary = reqs[r].summary
            /\ (reqs[r].pc = "remote" /\ reqs'[r].pc = "idle" /\ done'.kind = "summary")
               => ~cacheEnabled
            /\ (reqs[r].pc = "remote" /\ reqs'[r].pc = "saveMiss")
               => /\ bgCache'[reqs[r].url].has
                  /\ bgCache'[reqs[r].url].summary = reqs'[r].summary
                  /\ bgCache'[reqs[r].url].timestamp = now]_vars

\* the classes of message
IsRateLimitMessage(message) == message = RateLimitMessage
IsConfigureKeyMessage(message) ==
    \E i \in 1..Len(message) :
        <<message[i]>> \in {NotConfiguredMessage, NoKeysMessage, NoOpenAIKeyMessage}
IsGenericMessage(message) ==
    /\ Len(message) > 1
    /\ message[1] = "Failed to generate summary: "
    /\ ~IsConfigureKeyMessage(message)

\* the credential was missing, or the remote endpoint refused it
CredentialFailure(outcome) ==
    \/ outcome.apiKey = ""
    \/ (outcome.key = NoKey /\ provider.provider \in {"gemini", "openai"})
    \/ (~outcome.response.rejected /\ outcome.response.status \in {401, 403})

\* C19 as claimed: an error of summarize carries the rate-limit message exactly when the
\* remote answered 429, the configure-key message exactly when the credential was
\* missing or invalid, and the generic message wrapping the cause otherwise.
C19_ErrorClasses ==
    (done.kind = "error" /\ ReachedAI(done) /\ done.message # StorageError)
    => /\ IsRateLimitMessage(done.message)
          <=> (~done.response.rejected /\ done.response.status = 429)
       /\ IsConfigureKeyMessage(done.message) <=> CredentialFailure(done)
       /\ IsGenericMessage(done.message)
          <=> ~(\/ (~done.response.rejected /\ done.response.status = 429)
                \/ CredentialFailure(done))

(***************************************************************************)
(*                        TCDetector: the claims                           *)
(***************************************************************************)

\* C1 as claimed: no two entries of detectedLinks have the same url, and no two have
\* both the same text and the same type.
C1_NoDuplicateLinks ==
    \A i, j \in 1..Len(detectedLinks) :
        i # j => /\ detectedLinks[i].url # detectedLinks[j].url
                 /\ ~(/\ detectedLinks[i].text = detectedLinks[j].text
                      /\ detectedLinks[i].type = detectedLinks[j].type)

\* C20 as claimed: any two executions of scanForLinks are at least the throttle delay
\* apart.
C20_OneScanPerWindow == ~scanLog.close

\* C21: a scan of the document the previous scan saw adds no link to detectedLinks,
\* attaches no indicator and sends no linksDetected message.
C21_RescanIdempotent == scanLog.again => ~scanLog.added

\* a second scan of a document in which links were detected has run
C21_Witness == scanLog.again /\ detectedLinks # <<>> /\ scanLog.doc = dom

\* C22 as claimed: destroy() leaves the observer disconnected and no indicator attached,
\* and the init() that follows it starts with detectedLinks empty.
C22_RestartFromEmpty ==
    [][/\ (env'.rescans > env.rescans) => (~observing' /\ indicators' = {})
       /\ (env.rescans > 0 /\ ~isInitialized /\ isInitialized') => detectedLinks' = <<>>]_vars

(***************************************************************************)
(*              BackgroundService: completion and capacity                 *)
(***************************************************************************)

\* generateSummary with the shared pool, a user key and the gemini provider. The steps
\* the extension takes by itself happen when they can: chrome.storage.local.set calls
\* back, so a pending saveCache() settles. Nothing is assumed of the tab whose load
\* fetchExternalDocument awaits (background.ts:231-239) or of the endpoint whose answer
\* callGeminiAPI awaits (aiService.ts:147-168).
SumLiveInit ==
    /\ SumInit
    /\ cacheEnabled
    /\ hasDefaultApiKeys
    /\ provider = [apiKey |-> "user-key", provider |-> "gemini"]

SpecSummarizeLive ==
    /\ SumLiveInit
    /\ [][SumNext]_vars
    /\ WF_vars(\E r \in Reqs : SaveHit(r))
    /\ WF_vars(\E r \in Reqs : SaveMiss(r))

\* C23 as claimed: every generateSummary call that started returns or raises, whether
\* or not the tab reports its load and the endpoint answers.
C23_EveryRequestCompletes ==
    \A r \in Reqs : (reqs[r].pc # "idle") ~> (reqs[r].pc = "idle")

\* C24 as claimed: BackgroundService.cache never holds more entries than the capacity.
C24_BgCacheBounded ==
    Cardinality({url \in SumUrls : bgCache[url].has}) <= MAX_CACHE_SIZE

\* a remote call that failed for a passing reason: the fetch was rejected (network
\* failure) or the endpoint answered 5xx
Transient(response) ==
    response.rejected \/ (response.status >= 500 /\ response.status <= 599)

\* C25 as claimed, in its weakest reading: an error that follows a transient failure of
\* the remote call is returned only after the call was issued again at least once.
C25_TransientIsRetried ==
    (done.kind = "error" /\ done.attempts > 0 /\ Transient(done.response))
        => done.attempts > 1

\* C27 as claimed: the step that sends a remote request, whatever the provider, leaves
\* the chosen credential with one request more in its window and every other
\* credential's count and window start as they were.
C27_DispatchCountsOnce ==
    [][\A r \in Reqs :
         (reqs[r].pc = "fetch" /\ reqs'[r].pc = "remote")
         => /\ requestCounts'[reqs'[r].key].count = WindowCount(reqs'[r].key) + 1
            /\ \A key \in Keys \ {reqs'[r].key} :
                 requestCounts'[key] = requestCounts[key]]_vars

(***************************************************************************)
(*                     parseAIResponse: the claims                         *)
(***************************************************************************)

\* C29: when the response parsed as a JSON object, the Summary has a riskScore in
\* [0, 1] (0..10 tenths), at most 6 key points, 5 red flags and 5 data rights, every
\* red-flag type is one of the five known ones or other, every data-right type is one
\* of the five known ones, and an element of the response whose type is not known
\* appears with type other (red flag) or access (data right).
C29_SanitizedSummary ==
    (parse.ran /\ ~parse.in.throws /\ parse.in.kind = "object")
    => /\ parse.out.riskScore >= 0 /\ parse.out.riskScore <= 10
       /\ Len(parse.out.keyPoints) <= 6
       /\ Len(parse.out.redFlags) <= 5
       /\ Len(parse.out.dataRights) <= 5
       /\ \A i \in 1..Len(parse.out.redFlags) :
            /\ parse.out.redFlags[i].type \in FlagTypes \cup {"other"}
            /\ parse.in.redFlags[i].type \notin FlagTypes
                 => parse.out.redFlags[i].type = "other"
       /\ \A i \in 1..Len(parse.out.dataRights) :
            /\ parse.out.dataRights[i].type \in RightTypes
            /\ parse.in.dataRights[i].type \notin RightTypes
                 => parse.out.dataRights[i].type = "access"

\* an object with 7 key points, 6 red flags of an unknown type, 6 data rights of an
\* unknown type and a score of 2.5 was turned into a Summary with 6, 5 and 5 of them
\* and the score 1
C29_Witness ==
    /\ parse.ran
    /\ parse.in.kind = "object"
    /\ Len(parse.in.keyPoints) = 7 /\ Len(parse.out.keyPoints) = 6
    /\ Len(parse.in.redFlags) = 6 /\ Len(parse.out.redFlags) = 5
    /\ Len(parse.in.dataRights) = 6 /\ Len(parse.out.dataRights) = 5
    /\ parse.in.redFlags[1].type = "tracking" /\ parse.out.redFlags[1].type = "other"
    /\ parse.in.dataRights[1].type = "erasure" /\ parse.out.dataRights[1].type = "access"
    /\ parse.in.riskScore = 25 /\ parse.out.riskScore = 10

ThrottleTimers(ts) == {t \in ts : t.kind = "throttle"}

\* C31: at most one deferred scan is pending; a mutation that reaches the throttle
\* inside the window (now - lastExecTime <= delay) scans nothing itself and leaves
\* exactly one deferred scan, due at lastExecTime + delay; a deferred scan is only ever
\* removed by running or by being replaced by the next request's; when it runs it
\* scans the document as the latest request left it; and a pending deferred scan
\* eventually runs.
C31_ThrottleCoalesces ==
    /\ [](Cardinality(ThrottleTimers(timers)) <= 1)
    /\ [][/\ (dom' # dom /\ observing /\ now - lastExecTime <= THROTTLE_DELAY)
              => /\ ThrottleTimers(timers') = {Timer("throttle", lastExecTime + THROTTLE_DELAY)}
                 /\ detectedLinks' = detectedLinks /\ scanLog' = scanLog
          /\ (ThrottleTimers(timers) # {} /\ ThrottleTimers(timers') = {})
              => /\ lastExecTime' = now
                 /\ scanLog'.ran /\ scanLog'.time = now /\ scanLog'.doc = dom
                 /\ \A t \in ThrottleTimers(timers) : t.due <= now
          /\ (ThrottleTimers(timers) # {} /\ ThrottleTimers(timers') # ThrottleTimers(timers))
              => \/ ThrottleTimers(timers') = {}
                 \/ dom' # dom]_vars
    /\ (ThrottleTimers(timers) # {}) ~> (ThrottleTimers(timers) = {})

\* two mutations inside one window: since the throttled scan that ran last, two
\* anchors were appended under observation, and one deferred scan is pending, due at
\* the end of the window
C31_Witness ==
    /\ observing
    /\ scanLog.ran /\ lastExecTime = scanLog.time
    /\ Len(dom) >= Len(scanLog.doc) + 2
    /\ now - lastExecTime <= THROTTLE_DELAY
    /\ ThrottleTimers(timers) = {Timer("throttle", lastExecTime + THROTTLE_DELAY)}

\* C32: generateSummary is not single-flight. A call that finds no unexpired entry goes
\* on to fetch the document even while another call for the same url is in flight, and
\* each such call makes its own remote call; when a call stores its result, the entry
\* of its url is replaced by {summary, timestamp: now, hits: 1} and no other url's
\* entry changes, so the url keeps a single entry.
C32_NotSingleFlight ==
    [][\A r \in Reqs :
         /\ (reqs[r].pc = "idle" /\ reqs'[r].pc # "idle" /\ ~Unexpired(reqs'[r].url))
            => reqs'[r].pc = "fetch"
         /\ (reqs[r].pc = "fetch" /\ reqs'[r].pc = "remote") => reqs'[r].attempts = 1
         /\ (reqs[r].pc = "remote" /\ reqs'[r].pc = "saveMiss")
            => /\ bgCache'[reqs[r].url] =
                    [has |-> TRUE, summary |-> reqs'[r].summary, timestamp |-> now,
                     hits |-> 1]
               /\ \A url \in SumUrls \ {reqs[r].url} : bgCache'[url] = bgCache[url]]_vars

\* two calls for url 1 overlapped: one has made its remote call and stored its result,
\* the other has made its own remote call and not yet heard the answer
C32_Witness ==
    /\ reqs[1].url = 1 /\ reqs[2].url = 1
    /\ {reqs[1].pc, reqs[2].pc} = {"saveMiss", "remote"}
    /\ reqs[1].attempts = 1 /\ reqs[2].attempts = 1
    /\ bgCache[1].has /\ bgCache[1].hits = 1


\* C34 as claimed: a 'linksDetected' message is sent exactly by the steps in which a
\* scan accepts at least one new candidate.
C34_Original == [][(sent' # sent) <=> (detectedLinks' # detectedLinks)]_vars

\* C34: a 'linksDetected' message is sent by every scan that accepts at least one new
\* candidate, by no scan that accepts none, and once by every init() that initialises
\* the detector, whether or not anything was accepted; each message carries the whole
\* candidate set as it is after the step and the page URL.
C34_NotifyOnAcceptOrInit ==
    [][((sent' # sent)
           <=> (detectedLinks' # detectedLinks \/ (~isInitialized /\ isInitialized')))
       /\ ((sent' # sent)
           => sent' = [count |-> sent.count + 1, links |-> detectedLinks',
                       url |-> PageUrl])]_vars

\* a scan accepted a candidate and sent the second message after the one of init(),
\* and a later scan accepted nothing and sent none
C34_Witness ==
    /\ sent.count = 2
    /\ Len(sent.links) > 0
    /\ sent.links = detectedLinks
    /\ scanLog.ran
    /\ ~scanLog.added

\* C35: in every scan scanFooterLinks runs exactly when the pass over the whole
\* document accepted no link, and each link it returns is no duplicate of the
\* candidates held before the scan and has its indicator attached.
C35_SecondPass ==
    [][(scanLog' # scanLog)
       => /\ scanLog'.footer <=> (scanLog'.first = 0)
          /\ \A i \in 1..Len(scanLog'.footerLinks) :
                /\ ~IsDuplicate(detectedLinks, scanLog'.footerLinks[i])
                /\ scanLog'.footerLinks[i].element \in indicators']_vars

\* a scan whose first pass accepted nothing went on to scanFooterLinks, over a document
\* holding a link in a footer container and a link in the bottom fifth of the page
C35_Witness ==
    /\ scanLog.ran
    /\ scanLog.footer
    /\ scanLog.first = 0
    /\ \E i \in 1..Len(scanLog.doc) :
          InFooter(scanLog.doc[i]) /\ Classified[scanLog.doc[i]] # NoLink
    /\ \E i \in 1..Len(scanLog.doc) :
          InBottom(scanLog.doc[i]) /\ Classified[scanLog.doc[i]] # NoLink

\* the score the claim gives a category: the keyword ratio, plus 0.5 when one of the
\* category's path patterns occurs in the href
PatternScore(a, type) ==
    LET base == CalculateScore(a, KEYWORDS[type])
    IN  IF UrlPatterns[type] \cap a.patterns # {}
        THEN <<base[1] + base[2] \div 2, base[2]>>
        ELSE base

\* C36 as claimed: a link is returned exactly when some category's score is above the
\* threshold, and then no category has a higher score than the type returned.
C36_TypeIsArgmax ==
    analysis.ran
    => /\ (analysis.out # NoLink)
          <=> (\E i \in 1..Len(Types) :
                 Greater(PatternScore(analysis.in, Types[i]),
                         <<THRESHOLD_NUM, THRESHOLD_DEN>>))
       /\ (analysis.out # NoLink)
          => (\A i \in 1..Len(Types) :
                ~Greater(PatternScore(analysis.in, Types[i]),
                         PatternScore(analysis.in, analysis.out.type)))

\* C37 as claimed: between destroy() and the next init() no step adds a candidate or
\* attaches an indicator.
C37_NoScanAfterDestroy ==
    [][(env.ready /\ ~isInitialized /\ ~isInitialized')
       => (detectedLinks' = detectedLinks /\ indicators' = indicators)]_vars

\* C38: a generateSummary call that raises because the document could not be fetched,
\* the credential is missing or the remote call failed has changed nothing in the
\* cache: neither the step that found the miss, nor the step that dispatched the remote
\* call, nor the step that raised adds, replaces or removes an entry or changes a hit
\* count.
C38_ErrorLeavesCache ==
    [][\A r \in Reqs :
         (\/ (reqs[r].pc = "idle" /\ reqs'[r].pc = "fetch")
          \/ (reqs[r].pc = "fetch" /\ reqs'[r].pc = "remote")
          \/ (/\ reqs[r].pc \in {"fetch", "remote"}
              /\ reqs'[r].pc = "idle"
              /\ done'.kind = "error"))
         => bgCache' = bgCache]_vars

\* a call for a url whose entry had expired ended in a remote error, and the expired
\* entry is still there with its hit count
C38_Witness ==
    /\ done.kind = "error"
    /\ done.fetched
    /\ ~done.analysed
    /\ done.key # NoKey
    /\ bgCache[done.url].has
    /\ bgCache[done.url].hits = 1
    /\ IsCacheExpired(bgCache[done.url], now)
    /\ \A r \in Reqs : reqs[r].pc = "idle"

\* the summary made of the fallback of the catch block (aiService.ts:343-348)
IsFallback(summary) == summary.keyPoints = Fallback.keyPoints

\* C39 as claimed: the summary returned after a parse failure is stored under its url
\* whenever caching is enabled, with the time of storing and one hit; a call that
\* starts while that entry is unexpired takes it from the cache, and returns it without
\* fetching the document or calling the remote model.
C39_DegradedIsCached ==
    [][\A r \in Reqs :
         /\ (/\ reqs[r].pc = "remote"
             /\ reqs'[r].pc # "remote"
             /\ IsFallback(IF reqs'[r].pc = "idle" THEN done'.summary
                           ELSE reqs'[r].summary))
            => IF cacheEnabled
               THEN /\ reqs'[r].pc = "saveMiss"
                    /\ bgCache'[reqs[r].url]
                         = [has |-> TRUE, summary |-> reqs'[r].summary,
                            timestamp |-> now, hits |-> 1]
               ELSE bgCache' = bgCache
         /\ (reqs[r].pc = "idle" /\ reqs'[r].pc # "idle"
                /\ Unexpired(reqs'[r].url)
                /\ IsFallback(bgCache[reqs'[r].url].summary))
            => /\ reqs'[r].pc = "saveHit"
               /\ reqs'[r].summary = bgCache[reqs'[r].url].summary
         /\ (reqs[r].pc = "saveHit" /\ reqs'[r].pc = "idle" /\ IsFallback(reqs[r].summary))
            => /\ done'.kind = "summary"
               /\ done'.summary = reqs[r].summary
               /\ ~done'.fetched
               /\ done'.key = NoKey]_vars

\* C40 as claimed: while settings.cacheEnabled is false no step adds or replaces an
\* entry, the only change to the cache being a counted hit; a call that starts while
\* the entry of its url is unexpired counts a hit and returns the stored summary
\* without fetching the document or calling the remote model.
C40_DisabledStillReads ==
    [][~cacheEnabled
       => /\ \A url \in SumUrls :
               \/ bgCache'[url] = bgCache[url]
               \/ (bgCache[url].has
                   /\ bgCache'[url] = [bgCache[url] EXCEPT !.hits = @ + 1])
          /\ \A r \in Reqs :
               /\ (reqs[r].pc = "idle" /\ reqs'[r].pc # "idle"
                      /\ Unexpired(reqs'[r].url))
                  => /\ reqs'[r].pc = "saveHit"
                     /\ reqs'[r].summary = bgCache[reqs'[r].url].summary
                     /\ bgCache'[reqs'[r].url].hits = bgCache[reqs'[r].url].hits + 1
               /\ (reqs[r].pc = "saveHit" /\ reqs'[r].pc = "idle")
                  => /\ done'.kind = "summary"
                     /\ done'.summary = reqs[r].summary
                     /\ ~done'.fetched
                     /\ done'.key = NoKey]_vars
====
